---- MODULE Spec2Model ----
(***************************************************************************)
(* Axiom trading agent: the strategy and position engine of the polling    *)
(* loop (package main), and the gateway client's request wrapper.          *)
(*                                                                         *)
(* Numbers.  Prices are whole currency units.  The percentages of the      *)
(* source (0.002, 0.008, 0.012, 1.0/100, 2.0/100 ...) are kept in          *)
(* thousandths, and every comparison  a <= b*(1 - r)  of the source is     *)
(* evaluated exactly as  a*1000 <= b*(1000 - r1000).                       *)
(***************************************************************************)
EXTENDS Integers, Sequences, FiniteSets, TLC

(* ---------------- bounds of the model ---------------- *)

\* Ticks of the polling loop that are explored.
MaxTicks == 3

\* The last time-of-day zone the clock reaches (see Zone).
MaxClock == 2

\* Ticks between two reloads of the strategies (15 minutes of 10-second
\* ticks in the source; the same comparison with a shorter interval).
ReloadEvery == 2

\* The cap on open positions (defaultMaxPositions; the source sets 8, the
\* model explores the same comparison with a cap that two symbols can reach).
defaultMaxPositions == 2

\* Stand-ins for the largest and the magnitude of the smallest int
\* (math.MaxInt64 / math.MinInt64), scaled to fit 32-bit arithmetic.
MaxInt == 1000000

(* ---------------- program constants ---------------- *)

defaultBudget == 100000
historyWindow == 3
\* thousandths
defaultBuffer == 2
defaultBounceRebound == 8
defaultQuickDrop == 12
defaultFixedSLPercent == 10
defaultTargetPercent == 20
defaultTrailingPercent == 10
defaultLeverage == 1

\* The watchlist. TATAMOTORS is the ticker the polling loop skips.
Symbols == {"INFY", "TCS", "TATAMOTORS"}

\* Last traded prices the gateway reports (0 is a price a quote can carry).
\* INFY moves between them or its fetch fails; TCS trades flat; SBIN drifts by
\* half a percent around a higher price.
Prices == {0, 100, 102}
DriftPrices == {1000, 1005}
\* GetLTP's error return.
FetchErr == -1
Quotes(s) ==
    IF s = "INFY" THEN Prices \cup {FetchErr}
    ELSE IF s = "SBIN" THEN DriftPrices
    ELSE {100}

TokenOf(sym) == "tok-" \o sym

\* Exchange-local time of day, in the order the thresholds of the loop cut it:
\* 0 = 05:30..15:09, 1 = 15:10..15:29, 2 = 15:30..15:59, 3 = 16:00..23:59,
\* 4 = 00:00..05:29 (the hours before time.Truncate(24h)'s UTC day boundary).
ZonesPerDay == 5
Zone(t) == t % ZonesPerDay
\* The index of the UTC day, which is what Truncate(24 * time.Hour) keeps.
UTCDay(t) == t \div ZonesPerDay

(* ---------------- strategies ---------------- *)

\* getStrategy's fallback.
DefaultStrategy ==
    [AllowShort |-> TRUE, BreakoutLong |-> defaultBuffer,
     BreakoutShort |-> defaultBuffer, Target |-> defaultTargetPercent,
     SL |-> defaultFixedSLPercent, Leverage |-> defaultLeverage]

\* {"leverage": 1}: every omitted field is its zero value.
StratZero ==
    [AllowShort |-> FALSE, BreakoutLong |-> 0, BreakoutShort |-> 0,
     Target |-> 0, SL |-> 0, Leverage |-> 1]

\* A wide stop and target, so that the trailing stop is the first to match.
StratWide ==
    [AllowShort |-> TRUE, BreakoutLong |-> 2, BreakoutShort |-> 2,
     Target |-> 50, SL |-> 50, Leverage |-> 1]

\* Buffers below zero: "breakout_long": -0.05, "breakout_short": -0.05.
StratNeg ==
    [AllowShort |-> TRUE, BreakoutLong |-> -50, BreakoutShort |-> -50,
     Target |-> 20, SL |-> 10, Leverage |-> 1]

EmptyMap == [s \in {} |-> 0]

\* Contents of data/config.json that the generator writes.
ConfigFiles ==
    { EmptyMap,
      [s \in {"INFY"} |-> StratZero],
      [s \in {"INFY"} |-> StratWide],
      [s \in {"INFY", "TCS"} |-> StratNeg] }

(* ---------------- state ---------------- *)

VARIABLES
    now,              \* the tick's time.Now(): the index of its time-of-day zone
    ticks,            \* ticks taken so far
    lastDailyReset,   \* UTC day of the last ledger reset
    sinceBrainUpdate, \* ticks since lastBrainUpdate, up to ReloadEvery
    pc,               \* where the main goroutine is in the loop body
    pending,          \* keys a range loop has still to visit
    sym,              \* the loop variable sym of the polling loop
    ltp,              \* the loop variable ltp
    mu,               \* the mutex: "free" or "held"
    symbolToToken,
    highLow,
    ltpHistory,
    longPositions,
    shortPositions,
    stockStrategies,
    paperTrading,
    dailyPnL,
    tradeHistory,
    trace,            \* the calls made by the step just taken, in order
    sessionToken,     \* the token the session package caches
    sent,             \* the requests handed to the HTTP transport, in order
    reauths,          \* calls of auth.GetSessionToken made by MakeRequest
    calls,            \* gateway calls made so far
    ret,              \* what the last gateway call returned
    authSent,         \* requests auth.GetSessionToken has sent
    authRet,          \* the last call of auth.GetSessionToken and its result
    observed,         \* per symbol, every price Observe handed to the trackers
    tickers,          \* stocks.Tickers, the watchlist
    tokenFile,        \* data/token_map.json
    searched,         \* the tickers the start-up called SearchScrip for, in order
    resolution        \* the last start-up's searches: what each call returned,
                      \* and how often the cache file was written

engineVars == <<now, ticks, lastDailyReset, sinceBrainUpdate, pc, pending, sym, ltp, mu, symbolToToken,
                highLow, ltpHistory, longPositions, shortPositions, stockStrategies,
                paperTrading, dailyPnL, tradeHistory, trace>>

clientVars == <<sessionToken, sent, reauths, calls, ret, authSent, authRet>>

otherVars == <<observed, tickers, tokenFile, searched, resolution>>

vars == <<engineVars, clientVars, otherVars>>

(* ---------------- helpers ---------------- *)

max(a, b) == IF a > b THEN a ELSE b
min(a, b) == IF a < b THEN a ELSE b

\* m[k] of a Go map: the zero value when the key is absent.
MapGet(m, k, zero) == IF k \in DOMAIN m THEN m[k] ELSE zero
MapPut(m, k, v) == [x \in DOMAIN m \cup {k} |-> IF x = k THEN v ELSE m[x]]
MapDelete(m, k) == [x \in DOMAIN m \ {k} |-> m[x]]

ZeroHL == [High |-> 0, Low |-> 0]
ZeroLong == [EntryPrice |-> 0, HighestPrice |-> 0, Qty |-> 0, EntryTime |-> 0]
ZeroShort == [EntryPrice |-> 0, LowestPrice |-> 0, Qty |-> 0, EntryTime |-> 0]

getStrategy(strategies, s) == MapGet(strategies, s, DefaultStrategy)

\* int(x / y) of two floats: truncation toward zero.
TruncDiv(x, y) == IF x >= 0 THEN x \div y ELSE -((-x) \div y)

\* qty := int(effectiveBudget / ltp). For ltp = 0 the quotient is +Inf or NaN
\* and the conversion is implementation-dependent: conv names what the build
\* yields ("min": the smallest int, as on amd64; "sat": saturation, NaN to 0).
Quantity(p, leverage, conv) ==
    LET effectiveBudget == defaultBudget * leverage
    IN  IF p > 0 THEN TruncDiv(effectiveBudget, p)
        ELSE IF conv = "min" THEN -MaxInt
        ELSE IF effectiveBudget > 0 THEN MaxInt
        ELSE IF effectiveBudget = 0 THEN 0
        ELSE -MaxInt

Conversions == {"min", "sat"}

\* placeOrder: the paper stub always reports success, the gateway either.
OrderOutcomes == IF paperTrading THEN {TRUE} ELSE BOOLEAN

\* A call as the trace records it: the function, its symbol and price, the
\* order it placed (side, qty, status "ok" / "failed", or "skipped" when the
\* quantity was below 1), the detector or exit reason, and the entry and
\* extreme price of the position it was about.
Event(op, s, p, side, qty, status, reason, entry, extreme) ==
    [op |-> op, sym |-> s, price |-> p, side |-> side, qty |-> qty,
     status |-> status, reason |-> reason, entry |-> entry, extreme |-> extreme]

(* ---------------- the engine's functions ---------------- *)

\* The part of the state a call reads and writes, threaded through the calls
\* of one step: price range and history, open positions, ledger, the mutex,
\* and whether the goroutine has stopped for good in mu.Lock().
Snapshot ==
    [hl |-> highLow, hist |-> ltpHistory, long |-> longPositions,
     short |-> shortPositions, th |-> tradeHistory, pnl |-> dailyPnL,
     mu |-> mu, blocked |-> FALSE, tr |-> <<>>]

\* mu.Lock() by the only goroutine: sync.Mutex is not reentrant, so locking
\* it while held never returns.
Lock(st) == IF st.mu = "held" THEN [st EXCEPT !.blocked = TRUE] ELSE st

Emit(st, e) == [st EXCEPT !.tr = Append(@, e)]

\* logTradeRecord appending the trade without adding its PnL to dailyPnL.
logTradeRecordOnly(st, trade) ==
    [st EXCEPT !.th = Append(@, trade)]

logTradeRecord(st, trade) ==
    [st EXCEPT !.th = Append(@, trade), !.pnl = @ + trade.PnL]

enterLong(st, s, p, leverage, ok, conv, why) ==
    LET qty == Quantity(p, leverage, conv)
        locked == Lock(st)
    IN  IF qty < 1 THEN Emit(st, Event("enterLong", s, p, "BUY", qty, "skipped", why, p, p))
        ELSE IF ~ok THEN Emit(st, Event("enterLong", s, p, "BUY", qty, "failed", why, p, p))
        ELSE IF locked.blocked
             THEN Emit(locked, Event("enterLong", s, p, "BUY", qty, "ok", why, p, p))
        ELSE Emit([st EXCEPT !.long = MapPut(@, s,
                        [EntryPrice |-> p, HighestPrice |-> p, Qty |-> qty,
                         EntryTime |-> now])],
                  Event("enterLong", s, p, "BUY", qty, "ok", why, p, p))

\* enterShort that stores the position although the order failed.
enterShortDespiteFailure(st, s, p, leverage, ok, conv, why) ==
    LET qty == Quantity(p, leverage, conv)
    IN  IF qty < 1 THEN Emit(st, Event("enterShort", s, p, "SELL", qty, "skipped", why, p, p))
        ELSE Emit([st EXCEPT !.short = MapPut(@, s,
                        [EntryPrice |-> p, LowestPrice |-> p, Qty |-> qty,
                         EntryTime |-> now])],
                  Event("enterShort", s, p, "SELL", qty, IF ok THEN "ok" ELSE "failed",
                        why, p, p))

enterShort(st, s, p, leverage, ok, conv, why) ==
    LET qty == Quantity(p, leverage, conv)
        locked == Lock(st)
    IN  IF qty < 1 THEN Emit(st, Event("enterShort", s, p, "SELL", qty, "skipped", why, p, p))
        ELSE IF ~ok THEN Emit(st, Event("enterShort", s, p, "SELL", qty, "failed", why, p, p))
        ELSE IF locked.blocked
             THEN Emit(locked, Event("enterShort", s, p, "SELL", qty, "ok", why, p, p))
        ELSE Emit([st EXCEPT !.short = MapPut(@, s,
                        [EntryPrice |-> p, LowestPrice |-> p, Qty |-> qty,
                         EntryTime |-> now])],
                  Event("enterShort", s, p, "SELL", qty, "ok", why, p, p))

\* exitLong that goes on to the removal whether or not the order succeeded.
exitLongUnchecked(st, s, p, qty, reason, ok) ==
    LET pos == MapGet(st.long, s, ZeroLong)
        pnl == qty * (p - pos.EntryPrice)
    IN  logTradeRecord(
            Emit([st EXCEPT !.long = MapDelete(@, s)],
                 Event("exitLong", s, p, "SELL", qty, IF ok THEN "ok" ELSE "failed",
                       reason, pos.EntryPrice, pos.HighestPrice)),
            [Symbol |-> s, Direction |-> "LONG", EntryTime |-> pos.EntryTime,
             EntryPrice |-> pos.EntryPrice, ExitTime |-> now, ExitPrice |-> p,
             Qty |-> qty, PnL |-> pnl, Reason |-> reason])

exitLong(st, s, p, qty, reason, ok) ==
    LET locked == Lock(st)
        pos == MapGet(st.long, s, ZeroLong)
        pnl == qty * (p - pos.EntryPrice)
    IN  IF ~ok THEN Emit(st, Event("exitLong", s, p, "SELL", qty, "failed", reason, pos.EntryPrice, pos.HighestPrice))
        ELSE IF locked.blocked
             THEN Emit(locked, Event("exitLong", s, p, "SELL", qty, "ok", reason, pos.EntryPrice, pos.HighestPrice))
        ELSE logTradeRecord(
                Emit([st EXCEPT !.long = MapDelete(@, s)],
                     Event("exitLong", s, p, "SELL", qty, "ok", reason, pos.EntryPrice, pos.HighestPrice)),
                [Symbol |-> s, Direction |-> "LONG", EntryTime |-> pos.EntryTime,
                 EntryPrice |-> pos.EntryPrice, ExitTime |-> now, ExitPrice |-> p,
                 Qty |-> qty, PnL |-> pnl, Reason |-> reason])

exitShort(st, s, p, qty, reason, ok) ==
    LET locked == Lock(st)
        pos == MapGet(st.short, s, ZeroShort)
        pnl == qty * (pos.EntryPrice - p)
    IN  IF ~ok THEN Emit(st, Event("exitShort", s, p, "BUY", qty, "failed", reason, pos.EntryPrice, pos.LowestPrice))
        ELSE IF locked.blocked
             THEN Emit(locked, Event("exitShort", s, p, "BUY", qty, "ok", reason, pos.EntryPrice, pos.LowestPrice))
        ELSE logTradeRecord(
                Emit([st EXCEPT !.short = MapDelete(@, s)],
                     Event("exitShort", s, p, "BUY", qty, "ok", reason, pos.EntryPrice, pos.LowestPrice)),
                [Symbol |-> s, Direction |-> "SHORT", EntryTime |-> pos.EntryTime,
                 EntryPrice |-> pos.EntryPrice, ExitTime |-> now, ExitPrice |-> p,
                 Qty |-> qty, PnL |-> pnl, Reason |-> reason])

\* The three exit conditions of checkLongExit, on the position as stored
\* after the extreme-price update.
LongFixedSL(pos, p, strat) == p * 1000 <= pos.EntryPrice * (1000 - strat.SL)
LongTarget(pos, p, strat) == p * 1000 >= pos.EntryPrice * (1000 + strat.Target)
LongTrailing(pos, p) == p * 1000 <= pos.HighestPrice * (1000 - defaultTrailingPercent)

ShortFixedSL(pos, p, strat) == p * 1000 >= pos.EntryPrice * (1000 + strat.SL)
ShortTarget(pos, p, strat) == p * 1000 <= pos.EntryPrice * (1000 - strat.Target)
ShortTrailing(pos, p) == p * 1000 >= pos.LowestPrice * (1000 + defaultTrailingPercent)

\* checkLongExit with the target tested before the fixed stop-loss.
checkLongExitTargetFirst(st, s, p, strategies, ok) ==
    IF Lock(st).blocked THEN Lock(st)
    ELSE IF s \notin DOMAIN st.long THEN st
    ELSE
    LET strat == getStrategy(strategies, s)
        pos == [st.long[s] EXCEPT !.HighestPrice = max(@, p)]
        st1 == Emit([st EXCEPT !.long = MapPut(@, s, pos)],
                    Event("checkLongExit", s, p, "", pos.Qty, "", "",
                          pos.EntryPrice, pos.HighestPrice))
    IN  IF LongTarget(pos, p, strat) THEN exitLong(st1, s, p, pos.Qty, "Target", ok)
        ELSE IF LongFixedSL(pos, p, strat) THEN exitLong(st1, s, p, pos.Qty, "Fixed SL", ok)
        ELSE IF LongTrailing(pos, p) THEN exitLong(st1, s, p, pos.Qty, "Trailing SL", ok)
        ELSE st1

\* checkLongExit storing the new extreme only when no exit condition holds.
checkLongExitLazyExtreme(st, s, p, strategies, ok) ==
    IF Lock(st).blocked THEN Lock(st)
    ELSE IF s \notin DOMAIN st.long THEN st
    ELSE
    LET strat == getStrategy(strategies, s)
        pos == [st.long[s] EXCEPT !.HighestPrice = max(@, p)]
        st0 == Emit(st, Event("checkLongExit", s, p, "", pos.Qty, "", "",
                              pos.EntryPrice, pos.HighestPrice))
        st1 == [st0 EXCEPT !.long = MapPut(@, s, pos)]
    IN  IF LongFixedSL(pos, p, strat) THEN exitLong(st0, s, p, pos.Qty, "Fixed SL", ok)
        ELSE IF LongTarget(pos, p, strat) THEN exitLong(st0, s, p, pos.Qty, "Target", ok)
        ELSE IF LongTrailing(pos, p) THEN exitLong(st0, s, p, pos.Qty, "Trailing SL", ok)
        ELSE st1

checkLongExit(st, s, p, strategies, ok) ==
    IF Lock(st).blocked THEN Lock(st)
    ELSE IF s \notin DOMAIN st.long THEN st
    ELSE
    LET strat == getStrategy(strategies, s)
        pos == [st.long[s] EXCEPT !.HighestPrice = max(@, p)]
        st1 == Emit([st EXCEPT !.long = MapPut(@, s, pos)],
                    Event("checkLongExit", s, p, "", pos.Qty, "", "",
                          pos.EntryPrice, pos.HighestPrice))
    IN  IF LongFixedSL(pos, p, strat) THEN exitLong(st1, s, p, pos.Qty, "Fixed SL", ok)
        ELSE IF LongTarget(pos, p, strat) THEN exitLong(st1, s, p, pos.Qty, "Target", ok)
        ELSE IF LongTrailing(pos, p) THEN exitLong(st1, s, p, pos.Qty, "Trailing SL", ok)
        ELSE st1

\* checkShortExit without the trailing stop.
checkShortExitNoTrailing(st, s, p, strategies, ok) ==
    IF Lock(st).blocked THEN Lock(st)
    ELSE IF s \notin DOMAIN st.short THEN st
    ELSE
    LET strat == getStrategy(strategies, s)
        pos == [st.short[s] EXCEPT !.LowestPrice = min(@, p)]
        st1 == Emit([st EXCEPT !.short = MapPut(@, s, pos)],
                    Event("checkShortExit", s, p, "", pos.Qty, "", "",
                          pos.EntryPrice, pos.LowestPrice))
    IN  IF ShortFixedSL(pos, p, strat) THEN exitShort(st1, s, p, pos.Qty, "Fixed SL", ok)
        ELSE IF ShortTarget(pos, p, strat) THEN exitShort(st1, s, p, pos.Qty, "Target", ok)
        ELSE st1

checkShortExit(st, s, p, strategies, ok) ==
    IF Lock(st).blocked THEN Lock(st)
    ELSE IF s \notin DOMAIN st.short THEN st
    ELSE
    LET strat == getStrategy(strategies, s)
        pos == [st.short[s] EXCEPT !.LowestPrice = min(@, p)]
        st1 == Emit([st EXCEPT !.short = MapPut(@, s, pos)],
                    Event("checkShortExit", s, p, "", pos.Qty, "", "",
                          pos.EntryPrice, pos.LowestPrice))
    IN  IF ShortFixedSL(pos, p, strat) THEN exitShort(st1, s, p, pos.Qty, "Fixed SL", ok)
        ELSE IF ShortTarget(pos, p, strat) THEN exitShort(st1, s, p, pos.Qty, "Target", ok)
        ELSE IF ShortTrailing(pos, p) THEN exitShort(st1, s, p, pos.Qty, "Trailing SL", ok)
        ELSE st1

\* updateHighLow that sets the session high once and never raises it.
updateHighLowFirstHigh(st, s, p) ==
    LET hl == MapGet(st.hl, s, ZeroHL)
        hi == IF hl.High = 0 THEN p ELSE hl.High
        lo == IF hl.Low = 0 \/ p < hl.Low THEN p ELSE hl.Low
    IN  IF Lock(st).blocked THEN Lock(st)
        ELSE [st EXCEPT !.hl = MapPut(@, s, [High |-> hi, Low |-> lo])]

updateHighLow(st, s, p) ==
    LET hl == MapGet(st.hl, s, ZeroHL)
        hi == IF hl.High = 0 \/ p > hl.High THEN p ELSE hl.High
        lo == IF hl.Low = 0 \/ p < hl.Low THEN p ELSE hl.Low
    IN  IF Lock(st).blocked THEN Lock(st)
        ELSE [st EXCEPT !.hl = MapPut(@, s, [High |-> hi, Low |-> lo])]

\* updateLTPHistory dropping the newest price of a full window, not the oldest.
updateLTPHistoryKeepOldest(st, s, p) ==
    LET hist == Append(MapGet(st.hist, s, <<>>), p)
    IN  IF Lock(st).blocked THEN Lock(st)
        ELSE [st EXCEPT !.hist = MapPut(@, s, IF Len(hist) > historyWindow
                                               THEN SubSeq(hist, 1, historyWindow)
                                               ELSE hist)]

updateLTPHistory(st, s, p) ==
    LET hist == Append(MapGet(st.hist, s, <<>>), p)
    IN  IF Lock(st).blocked THEN Lock(st)
        ELSE [st EXCEPT !.hist = MapPut(@, s, IF Len(hist) > historyWindow
                                               THEN Tail(hist) ELSE hist)]

checkBreakoutLong(st, s, p, threshold, strategies, ok, conv) ==
    LET hl == MapGet(st.hl, s, ZeroHL)
        pos == MapGet(st.long, s, ZeroLong)
    IN  IF st.blocked \/ pos.EntryPrice > 0 THEN st
        ELSE IF hl.High > 0 /\ p * 1000 > hl.High * (1000 + threshold)
             THEN enterLong(st, s, p, getStrategy(strategies, s).Leverage, ok, conv,
                            "Breakout")
        ELSE st

checkBounceBackBuy(st, s, p, strategies, ok, conv) ==
    LET hl == MapGet(st.hl, s, ZeroHL)
        hist == MapGet(st.hist, s, <<>>)
        pos == MapGet(st.long, s, ZeroLong)
    IN  IF st.blocked \/ pos.EntryPrice > 0 \/ Len(hist) < 2 THEN st
        ELSE LET prev == hist[Len(hist) - 1]
             IN  IF prev * 1000 <= hl.Low * 1005
                    /\ p * 1000 >= prev * (1000 + defaultBounceRebound)
                 THEN enterLong(st, s, p, getStrategy(strategies, s).Leverage, ok,
                                conv, "BounceBack")
                 ELSE st

checkBreakdownShort(st, s, p, threshold, strategies, ok, conv) ==
    LET hl == MapGet(st.hl, s, ZeroHL)
        pos == MapGet(st.short, s, ZeroShort)
    IN  IF st.blocked \/ pos.EntryPrice > 0 THEN st
        ELSE IF hl.Low > 0 /\ p * 1000 < hl.Low * (1000 - threshold)
             THEN enterShort(st, s, p, getStrategy(strategies, s).Leverage, ok, conv,
                             "Breakdown")
        ELSE st

\* drop := (prev - ltp) / prev; drop >= defaultQuickDrop. With prev = 0 the
\* quotient is NaN (ltp = 0) or -Inf (ltp > 0), and the comparison is false.
QuickDrop(prev, p) == prev > 0 /\ (prev - p) * 1000 >= defaultQuickDrop * prev

\* checkQuickDropShort measuring the drop from the oldest sample of the window.
checkQuickDropShortOldest(st, s, p, strategies, ok, conv) ==
    LET hist == MapGet(st.hist, s, <<>>)
        pos == MapGet(st.short, s, ZeroShort)
    IN  IF st.blocked \/ pos.EntryPrice > 0 \/ Len(hist) < 2 THEN st
        ELSE LET prev == hist[1]
             IN  IF QuickDrop(prev, p)
                 THEN enterShort(st, s, p, getStrategy(strategies, s).Leverage, ok,
                                 conv, "QuickDrop")
                 ELSE st

checkQuickDropShort(st, s, p, strategies, ok, conv) ==
    LET hist == MapGet(st.hist, s, <<>>)
        pos == MapGet(st.short, s, ZeroShort)
    IN  IF st.blocked \/ pos.EntryPrice > 0 \/ Len(hist) < 2 THEN st
        ELSE LET prev == hist[Len(hist) - 1]
             IN  IF QuickDrop(prev, p)
                 THEN enterShort(st, s, p, getStrategy(strategies, s).Leverage, ok,
                                 conv, "QuickDrop")
                 ELSE st

\* checkAllEntries running the two Short detectors whatever AllowShort says.
checkAllEntriesShortAlways(st, s, p, strategies, oks, conv) ==
    LET totalOpen == Cardinality(DOMAIN st.long) + Cardinality(DOMAIN st.short)
        strat == getStrategy(strategies, s)
        st1 == checkBreakoutLong(st, s, p, strat.BreakoutLong, strategies, oks[1], conv)
        st2 == checkBounceBackBuy(st1, s, p, strategies, oks[2], conv)
        st3 == checkBreakdownShort(st2, s, p, strat.BreakoutShort, strategies, oks[3], conv)
        st4 == checkQuickDropShort(st3, s, p, strategies, oks[4], conv)
    IN  IF Lock(st).blocked THEN Lock(st)
        ELSE IF totalOpen >= defaultMaxPositions THEN st
        ELSE st4

\* oks: the outcome of the order each of the four detectors would place.
checkAllEntries(st, s, p, strategies, oks, conv) ==
    LET totalOpen == Cardinality(DOMAIN st.long) + Cardinality(DOMAIN st.short)
        strat == getStrategy(strategies, s)
        st1 == checkBreakoutLong(st, s, p, strat.BreakoutLong, strategies, oks[1], conv)
        st2 == checkBounceBackBuy(st1, s, p, strategies, oks[2], conv)
        st3 == checkBreakdownShort(st2, s, p, strat.BreakoutShort, strategies, oks[3], conv)
        st4 == checkQuickDropShort(st3, s, p, strategies, oks[4], conv)
    IN  IF Lock(st).blocked THEN Lock(st)
        ELSE IF totalOpen >= defaultMaxPositions THEN st
        ELSE IF strat.AllowShort THEN st4
        ELSE st2

(* ---------------- daily summary, reload ---------------- *)

\* The sums printDailySummary reports: the PnL of the "LONG" records, and of
\* all the others.
RECURSIVE PnLSum(_)
PnLSum(trades) == IF trades = <<>> THEN 0 ELSE trades[1].PnL + PnLSum(Tail(trades))
IsLong(t) == t.Direction = "LONG"
IsNotLong(t) == t.Direction # "LONG"
longPnL(trades) == PnLSum(SelectSeq(trades, IsLong))
shortPnL(trades) == PnLSum(SelectSeq(trades, IsNotLong))

\* now.Hour() == 15 && now.Minute() >= 30 && now.Sub(lastDailyReset) >= 24h:
\* 15:30 exchange time is 10:00 UTC, so the difference to a UTC midnight is
\* at least 24h exactly when that midnight is of an earlier UTC day.
SummaryDue(t, reset) == Zone(t) = 2 /\ UTCDay(t) > reset

\* now.Hour() == 15 && now.Minute() >= 10
SquareOffDue(t) == Zone(t) \in {1, 2}

\* What runBrainAndReload leaves in stockStrategies: out is the failure of
\* brain.py, of os.ReadFile, of json.Unmarshal, or the parsed file.
ReloadFailures == {"brain failed", "read failed", "parse failed"}
\* runBrainAndReload assigning the map json.Unmarshal leaves behind when it
\* fails.
runBrainAndReloadPartial(strategies, failure, file) ==
    IF failure = "parse failed" THEN EmptyMap
    ELSE IF failure \in ReloadFailures THEN strategies ELSE file

runBrainAndReload(strategies, failure, file) ==
    IF failure \in ReloadFailures THEN strategies ELSE file

Store(st) ==
    /\ highLow' = st.hl
    /\ ltpHistory' = st.hist
    /\ longPositions' = st.long
    /\ shortPositions' = st.short
    /\ tradeHistory' = st.th
    /\ dailyPnL' = st.pnl
    /\ trace' = st.tr

(* ---------------- the gateway client ---------------- *)

\* Gateway calls that are explored.
MaxCalls == 3

\* Tokens the authentication endpoint hands out; "" is an empty token field.
Tokens == {"t1", "t2"}

\* A response body, by what the client reads of it: whether it is JSON, its
\* "stat" and "lp" fields, and the phrases strings.Contains can find in it.
Body(json, stat, lp, phrases) ==
    [json |-> json, stat |-> stat, lp |-> lp, phrases |-> phrases]
NoBody == Body(FALSE, "", "", {})
Bodies ==
    { Body(TRUE, "Ok", "100", {}),
      Body(TRUE, "Ok", "", {}),
      Body(TRUE, "Not_Ok", "", {"Session Expired", "Invalid Session Key"}),
      Body(TRUE, "Not_Ok", "", {"Session Expired"}),
      Body(FALSE, "", "", {"Connection failed"}) }

Contains(body, phrase) == phrase \in body.phrases

\* auth.GetSessionToken: an error, or the "token" field of an "Ok" response.
AuthOutcomes == {[ok |-> FALSE, token |-> ""]} \cup {[ok |-> TRUE, token |-> t] : t \in {"t2", ""}}

\* Outcome of http.DefaultClient.Do.
Transport == {"response", "error"}

\* session.Get and session.Set: one cached string.
sessionGet(g) == g.token
sessionSet(g, t) == [g EXCEPT !.token = t]

\* The client's state a call reads and writes, and what MakeRequest returns:
\* err ("" is nil), body, the bodies it received and how re-authentication went.
Gateway ==
    [token |-> sessionToken, sent |-> sent, reauths |-> reauths,
     err |-> "", body |-> NoBody, received |-> <<>>, reauth |-> "none"]

ErrNoSession == "no session token - authenticate first"

\* MakeRequest without the check of the cached token.
MakeRequestUnguarded(g, endpoint, net, body, auth) ==
    LET token == sessionGet(g)
        g1 == [g EXCEPT !.sent = Append(@, [endpoint |-> endpoint, jKey |-> token])]
        g2 == [g1 EXCEPT !.received = <<body>>, !.body = body]
    IN  IF net = "error" THEN [g1 EXCEPT !.err = "transport error"]
        ELSE IF Contains(body, "Invalid Session Key") \/ Contains(body, "Connection failed")
             THEN IF auth.ok
                  THEN [sessionSet(g2, auth.token) EXCEPT !.reauths = @ + 1, !.reauth = "ok"]
                  ELSE [g2 EXCEPT !.reauths = @ + 1, !.reauth = "failed"]
        ELSE g2

MakeRequest(g, endpoint, net, body, auth) ==
    LET token == sessionGet(g)
        g1 == [g EXCEPT !.sent = Append(@, [endpoint |-> endpoint, jKey |-> token])]
        g2 == [g1 EXCEPT !.received = <<body>>, !.body = body]
    IN  IF token = "" THEN [g EXCEPT !.err = ErrNoSession]
        ELSE IF net = "error" THEN [g1 EXCEPT !.err = "transport error"]
        ELSE IF Contains(body, "Invalid Session Key") \/ Contains(body, "Connection failed")
             THEN IF auth.ok
                  THEN [sessionSet(g2, auth.token) EXCEPT !.reauths = @ + 1, !.reauth = "ok"]
                  ELSE [g2 EXCEPT !.reauths = @ + 1, !.reauth = "failed"]
        ELSE g2

\* What a call returned to its caller: MakeRequest's pair (mrErr, mrBody), the
\* wrapper's error and value.
Return(call, g, err, value) ==
    [call |-> call, mrErr |-> g.err, mrBody |-> g.body, received |-> g.received,
     reauth |-> g.reauth, err |-> err, value |-> value]
NoReturn == Return("", Gateway, "", 0)

SearchScrip(g0, net, body, auth) ==
    LET g == MakeRequest(g0, "/SearchScrip", net, body, auth)
    IN  [gw |-> g, ret |-> Return("SearchScrip", g, g.err, 0)]

\* strconv.ParseFloat of the price strings the bodies carry.
ParsePrice(str) == IF str = "100" THEN 100 ELSE 0

GetLTP(g0, net, body, auth) ==
    LET g == MakeRequest(g0, "/GetQuotes", net, body, auth)
        Result(err, value) == [gw |-> g, ret |-> Return("GetLTP", g, err, value)]
    IN  IF g.err # "" THEN Result(g.err, 0)
        ELSE IF ~g.body.json THEN Result("JSON unmarshal failed", 0)
        ELSE IF g.body.stat # "Ok" THEN Result("GetQuotes failed or invalid response", 0)
        ELSE IF g.body.lp = "" THEN Result("no price field found", 0)
        ELSE Result("", ParsePrice(g.body.lp))

PlaceOrder(g0, net, body, auth) ==
    LET g == MakeRequest(g0, "/PlaceOrder", net, body, auth)
        Result(err) == [gw |-> g, ret |-> Return("PlaceOrder", g, err, 0)]
    IN  IF g.err # "" THEN Result(g.err)
        ELSE IF ~g.body.json THEN Result("order unmarshal failed")
        ELSE IF g.body.stat # "Ok" THEN Result("place order failed")
        ELSE Result("")

\* What the authentication endpoint answers: whether the body is JSON, its
\* "stat" and its "token" field.
AuthBody(json, stat, token) == [json |-> json, stat |-> stat, token |-> token]
AuthBodies ==
    { AuthBody(TRUE, "Ok", "t2"),
      AuthBody(TRUE, "Ok", ""),
      AuthBody(TRUE, "Not_Ok", ""),
      AuthBody(TRUE, "Not_Ok", "t2"),
      AuthBody(TRUE, "ok", "t2"),
      AuthBody(FALSE, "", "") }

\* config.RequestCode: unset, or the code of the day.
RequestCodes == {"", "rc"}

\* auth.GetSessionToken without the test of the response's "stat".
GetSessionTokenAnyStat(requestCode, net, body) ==
    LET Result(token, err, requests) ==
            [requestCode |-> requestCode, net |-> net, body |-> body,
             token |-> token, err |-> err, requests |-> requests]
    IN  IF requestCode = "" THEN Result("", "request_code required", 0)
        ELSE IF net = "error" THEN Result("", "transport error", 1)
        ELSE IF ~body.json THEN Result("", "invalid JSON", 1)
        ELSE Result(body.token, "", 1)

\* auth.GetSessionToken: the call with its inputs, the pair (token, err) it
\* returns ("" is nil) and the requests it sent.
GetSessionToken(requestCode, net, body) ==
    LET Result(token, err, requests) ==
            [requestCode |-> requestCode, net |-> net, body |-> body,
             token |-> token, err |-> err, requests |-> requests]
    IN  IF requestCode = "" THEN Result("", "request_code required", 0)
        ELSE IF net = "error" THEN Result("", "transport error", 1)
        ELSE IF ~body.json THEN Result("", "invalid JSON", 1)
        ELSE IF body.stat = "Ok" THEN Result(body.token, "", 1)
        ELSE Result("", "failed", 1)

NoAuthReturn ==
    [requestCode |-> "", net |-> "", body |-> AuthBody(FALSE, "", ""),
     token |-> "", err |-> "", requests |-> 0]

\* data/token_map.json: whether os.ReadFile and json.Unmarshal succeed on it,
\* and the entries of its "map" object in the order of the text.
CacheFile(readable, json, entries) ==
    [readable |-> readable, json |-> json, entries |-> entries]
NoFile == CacheFile(FALSE, FALSE, <<>>)
Entry(key, token) == [key |-> key, token |-> token]

\* json.MarshalIndent of a map[string]string: one entry for each key.
RECURSIVE Marshal(_)
Marshal(m) ==
    IF DOMAIN m = {} THEN <<>>
    ELSE LET k == CHOOSE key \in DOMAIN m : TRUE
         IN  <<Entry(k, m[k])>> \o Marshal(MapDelete(m, k))

\* json.Unmarshal into a map[string]string: a key that is repeated keeps the
\* value of its last entry.
RECURSIVE Unmarshal(_)
Unmarshal(entries) ==
    IF entries = <<>> THEN EmptyMap
    ELSE LET last == entries[Len(entries)]
         IN  MapPut(Unmarshal(SubSeq(entries, 1, Len(entries) - 1)), last.key, last.token)

\* loadSavedTokenMap accepting every file it can parse.
loadSavedTokenMapAnySize(file, watchlist) ==
    LET Result(ok, map) == [ok |-> ok, map |-> map]
    IN  IF ~file.readable THEN Result(FALSE, EmptyMap)
        ELSE IF ~file.json THEN Result(FALSE, EmptyMap)
        ELSE Result(TRUE, Unmarshal(file.entries))

\* loadSavedTokenMap: whether the cache is accepted, and the map it assigns
\* to symbolToToken then.
loadSavedTokenMap(file, watchlist) ==
    LET Result(ok, map) == [ok |-> ok, map |-> map]
    IN  IF ~file.readable THEN Result(FALSE, EmptyMap)
        ELSE IF ~file.json THEN Result(FALSE, EmptyMap)
        ELSE IF Cardinality(DOMAIN Unmarshal(file.entries)) # Len(watchlist)
             THEN Result(FALSE, EmptyMap)
        ELSE Result(TRUE, Unmarshal(file.entries))

\* saveTokenMap: the file it writes (the errors of os.MkdirAll and
\* os.WriteFile are ignored by the code; the write is taken to succeed).
saveTokenMap(m) == CacheFile(TRUE, TRUE, Marshal(m))

\* The watchlist the start-up loaded and the cache it accepted or wrote; the
\* trackers have been handed nothing.
\* A start-up that has searched nothing and written nothing.
NoResolution == [replies |-> <<>>, saves |-> 0]

InitOther(watchlist) ==
    /\ observed = EmptyMap
    /\ tickers = watchlist
    /\ tokenFile = saveTokenMap(symbolToToken)
    /\ searched = <<>>
    /\ resolution = NoResolution

InitClient ==
    /\ sessionToken = "t1"
    /\ sent = <<>>
    /\ reauths = 0
    /\ calls = 0
    /\ ret = [call |-> "", mrErr |-> "", mrBody |-> NoBody, received |-> <<>>,
              reauth |-> "none", err |-> "", value |-> 0]
    /\ authSent = 0
    /\ authRet = NoAuthReturn

(* ---------------- the polling loop ---------------- *)

\* The state main reaches before "for range ticker.C", started in trading
\* hours with every ticker of the watchlist resolved.
Init ==
    /\ now = 0
    /\ ticks = 0
    /\ lastDailyReset = UTCDay(now)
    /\ sinceBrainUpdate = 0
    /\ pc = "idle"
    /\ pending = {}
    /\ sym = ""
    /\ ltp = 0
    /\ mu = "free"
    /\ symbolToToken = [s \in Symbols |-> TokenOf(s)]
    /\ highLow = EmptyMap
    /\ ltpHistory = EmptyMap
    /\ longPositions = EmptyMap
    /\ shortPositions = EmptyMap
    /\ stockStrategies \in ConfigFiles
    /\ paperTrading \in BOOLEAN
    /\ dailyPnL = 0
    /\ tradeHistory = <<>>
    /\ trace = <<>>
    /\ InitClient
    /\ InitOther(<<"INFY", "TCS", "TATAMOTORS">>)

\* Time passes between two ticks: the clock enters the next time-of-day zone.
Advance ==
    /\ pc = "idle"
    /\ now < MaxClock
    /\ now' = now + 1
    /\ sinceBrainUpdate' = ReloadEvery
    /\ UNCHANGED <<sym, ltp, ticks, lastDailyReset, pc, pending, mu, symbolToToken,
                   highLow, ltpHistory, longPositions, shortPositions,
                   stockStrategies, paperTrading, dailyPnL, tradeHistory, trace,
                   clientVars, otherVars>>

\* printDailySummary: an empty ledger returns before the reset.
printDailySummary ==
    IF tradeHistory = <<>>
    THEN UNCHANGED <<tradeHistory, dailyPnL, lastDailyReset>>
    ELSE /\ tradeHistory' = <<>>
         /\ dailyPnL' = 0
         /\ lastDailyReset' = UTCDay(now)

\* for range ticker.C { now := ...; if ... { printDailySummary() }
Tick ==
    /\ pc = "idle"
    /\ ticks < MaxTicks
    /\ ticks' = ticks + 1
    /\ sinceBrainUpdate' = min(sinceBrainUpdate + 1, ReloadEvery)
    /\ IF SummaryDue(now, lastDailyReset)
       THEN printDailySummary
       ELSE UNCHANGED <<tradeHistory, dailyPnL, lastDailyReset>>
    /\ pc' = "squareOff"
    /\ trace' = <<>>
    /\ UNCHANGED <<sym, ltp, now, pending, mu, symbolToToken, highLow, ltpHistory,
                   longPositions, shortPositions, stockStrategies, paperTrading,
                   clientVars, otherVars>>

\* squareOffAllPositions up to its first loop; skipped before 15:10.
SquareOffBegin ==
    /\ pc = "squareOff"
    /\ IF SquareOffDue(now)
       THEN /\ mu' = "held"
            /\ pending' = DOMAIN longPositions
            /\ pc' = "squareOffLong"
       ELSE /\ pc' = "reload"
            /\ UNCHANGED <<mu, pending>>
    /\ trace' = <<>>
    /\ UNCHANGED <<sym, ltp, now, ticks, lastDailyReset, symbolToToken, highLow,
                   ltpHistory, longPositions, shortPositions, stockStrategies,
                   paperTrading, dailyPnL, tradeHistory,
                   sinceBrainUpdate, clientVars, otherVars>>

\* Within squareOffAllPositions the trace keeps every call of the square-off.
SquareOffSnapshot == [Snapshot EXCEPT !.tr = trace]

\* One iteration of "for sym, pos := range longPositions": ltp, _ := GetLTP
\* (0 when the fetch fails), then exitLong.
SquareOffLong ==
    /\ pc = "squareOffLong"
    /\ pending # {}
    /\ \E s \in pending : \E r \in Quotes(s), ok \in OrderOutcomes :
        LET p == IF r = FetchErr THEN 0 ELSE r
            st == exitLong(SquareOffSnapshot, s, p, longPositions[s].Qty, "EOD Square-off", ok)
        IN  /\ Store(st)
            /\ pending' = pending \ {s}
            /\ pc' = IF st.blocked THEN "blocked" ELSE "squareOffLong"
    /\ UNCHANGED <<sym, ltp, now, ticks, lastDailyReset, mu, symbolToToken,
                   stockStrategies, paperTrading,
                   sinceBrainUpdate, clientVars, otherVars>>

\* The first loop is over: the second one starts.
SquareOffNext ==
    /\ pc = "squareOffLong"
    /\ pending = {}
    /\ pending' = DOMAIN shortPositions
    /\ pc' = "squareOffShort"
    /\ UNCHANGED <<sym, ltp, now, ticks, lastDailyReset, mu, symbolToToken, highLow,
                   ltpHistory, longPositions, shortPositions, stockStrategies,
                   paperTrading, dailyPnL, tradeHistory, trace,
                   sinceBrainUpdate, clientVars, otherVars>>

\* One iteration of "for sym, pos := range shortPositions".
SquareOffShort ==
    /\ pc = "squareOffShort"
    /\ pending # {}
    /\ \E s \in pending : \E r \in Quotes(s), ok \in OrderOutcomes :
        LET p == IF r = FetchErr THEN 0 ELSE r
            st == exitShort(SquareOffSnapshot, s, p, shortPositions[s].Qty, "EOD Square-off", ok)
        IN  /\ Store(st)
            /\ pending' = pending \ {s}
            /\ pc' = IF st.blocked THEN "blocked" ELSE "squareOffShort"
    /\ UNCHANGED <<sym, ltp, now, ticks, lastDailyReset, mu, symbolToToken,
                   stockStrategies, paperTrading,
                   sinceBrainUpdate, clientVars, otherVars>>

\* Both loops are over: the deferred mu.Unlock() runs.
SquareOffEnd ==
    /\ pc = "squareOffShort"
    /\ pending = {}
    /\ mu' = "free"
    /\ pc' = "reload"
    /\ UNCHANGED <<sym, ltp, now, ticks, lastDailyReset, pending, symbolToToken,
                   highLow, ltpHistory, longPositions, shortPositions,
                   stockStrategies, paperTrading, dailyPnL, tradeHistory, trace,
                   sinceBrainUpdate, clientVars, otherVars>>

\* time.Since(lastBrainUpdate) >= 15*time.Minute
ReloadDue == sinceBrainUpdate >= ReloadEvery

\* if time.Since(lastBrainUpdate) >= 15*time.Minute { runBrainAndReload();
\* lastBrainUpdate = time.Now() }, then the polling loop starts over
\* symbolToToken.
Reload ==
    /\ pc = "reload"
    /\ IF ReloadDue
       THEN /\ \E failure \in ReloadFailures \cup {"none"}, file \in ConfigFiles :
                /\ stockStrategies' = runBrainAndReload(stockStrategies, failure, file)
                /\ trace' = <<Event("runBrainAndReload", "", 0, "", 0,
                                    IF failure \in ReloadFailures THEN "failed" ELSE "ok",
                                    failure, 0, 0)>>
            /\ sinceBrainUpdate' = 0
       ELSE /\ trace' = <<>>
            /\ UNCHANGED <<stockStrategies, sinceBrainUpdate>>
    /\ pending' = DOMAIN symbolToToken
    /\ pc' = "poll"
    /\ UNCHANGED <<sym, ltp, now, ticks, lastDailyReset, mu, symbolToToken, highLow,
                   ltpHistory, longPositions, shortPositions, paperTrading, dailyPnL,
                   tradeHistory, clientVars, otherVars>>

\* The detector whose order outcome is oks[i].
Detectors == <<"Breakout", "BounceBack", "Breakdown", "QuickDrop">>

\* An outcome is drawn for a detector only when it places an order.
Placed(tr, why) == \E i \in 1 .. Len(tr) : tr[i].reason = why /\ tr[i].status # "skipped"
EntryOutcomes(tr, oks) == \A i \in 1 .. 4 : Placed(tr, Detectors[i]) \/ oks[i]

\* The iteration with a break, not a continue, on GetLTP's error.
PollBreakOnError ==
    /\ pc = "poll"
    /\ \E s \in pending \ {"TATAMOTORS"} :
        \E r \in Quotes(s) :
              IF r = FetchErr
              THEN /\ pending' = {}
                   /\ trace' = <<Event("GetLTP", s, r, "", 0, "failed", "", 0, 0)>>
                   /\ UNCHANGED <<pc, sym, ltp, highLow, ltpHistory, longPositions,
                                  shortPositions, tradeHistory, dailyPnL>>
              ELSE LET st == updateLTPHistory(updateHighLow(Snapshot, s, r), s, r)
                   IN  /\ pending' = pending \ {s}
                       /\ Store(Emit(st, Event("GetLTP", s, r, "", 0, "ok", "", 0, 0)))
                       /\ sym' = s
                       /\ ltp' = r
                       /\ pc' = IF st.blocked THEN "blocked" ELSE "checkAllEntries"
    /\ UNCHANGED <<now, ticks, lastDailyReset, mu, symbolToToken,
                   stockStrategies, paperTrading,
                   sinceBrainUpdate, clientVars, otherVars>>

\* The iteration that runs the detectors and exit checks on the range and
\* history as they were before the fetch.
PollWithoutUpdate ==
    /\ pc = "poll"
    /\ \E s \in pending \ {"TATAMOTORS"} :
        /\ pending' = pending \ {s}
        /\ \E r \in Quotes(s) :
              IF r = FetchErr
              THEN /\ trace' = <<Event("GetLTP", s, r, "", 0, "failed", "", 0, 0)>>
                   /\ UNCHANGED <<pc, sym, ltp, highLow, ltpHistory, longPositions,
                                  shortPositions, tradeHistory, dailyPnL>>
              ELSE LET st == Snapshot
                   IN  /\ Store(Emit(st, Event("GetLTP", s, r, "", 0, "ok", "", 0, 0)))
                       /\ sym' = s
                       /\ ltp' = r
                       /\ pc' = IF st.blocked THEN "blocked" ELSE "checkAllEntries"
    /\ UNCHANGED <<now, ticks, lastDailyReset, mu, symbolToToken,
                   stockStrategies, paperTrading,
                   sinceBrainUpdate, clientVars, otherVars>>

\* One iteration of "for sym, token := range symbolToToken" up to the entry
\* checks, for a symbol that is polled: GetLTP (an error ends the iteration),
\* updateHighLow and updateLTPHistory. The iteration of TATAMOTORS does
\* nothing (continue) wherever the range places it.
Poll ==
    /\ pc = "poll"
    /\ \E s \in pending \ {"TATAMOTORS"} :
        /\ pending' = pending \ {s}
        /\ \E r \in Quotes(s) :
              IF r = FetchErr
              THEN /\ trace' = <<Event("GetLTP", s, r, "", 0, "failed", "", 0, 0)>>
                   /\ UNCHANGED <<pc, sym, ltp, highLow, ltpHistory, longPositions,
                                  shortPositions, tradeHistory, dailyPnL>>
              ELSE LET st == updateLTPHistory(updateHighLow(Snapshot, s, r), s, r)
                   IN  /\ Store(Emit(st, Event("GetLTP", s, r, "", 0, "ok", "", 0, 0)))
                       /\ sym' = s
                       /\ ltp' = r
                       /\ pc' = IF st.blocked THEN "blocked" ELSE "checkAllEntries"
    /\ UNCHANGED <<now, ticks, lastDailyReset, mu, symbolToToken,
                   stockStrategies, paperTrading,
                   sinceBrainUpdate, clientVars, otherVars>>

CheckAllEntries ==
    /\ pc = "checkAllEntries"
    /\ \E oks \in [1 .. 4 -> OrderOutcomes],
          conv \in (IF ltp = 0 THEN Conversions ELSE {"min"}) :
        LET st == checkAllEntries(Snapshot, sym, ltp, stockStrategies, oks, conv)
        IN  /\ EntryOutcomes(st.tr, oks)
            /\ Store(st)
            /\ pc' = IF st.blocked THEN "blocked" ELSE "checkLongExit"
    /\ UNCHANGED <<now, ticks, lastDailyReset, pending, sym, ltp, mu, symbolToToken,
                   stockStrategies, paperTrading,
                   sinceBrainUpdate, clientVars, otherVars>>

CheckLongExit ==
    /\ pc = "checkLongExit"
    /\ \E ok \in OrderOutcomes :
        LET st == checkLongExit(Snapshot, sym, ltp, stockStrategies, ok)
        IN  /\ Store(st)
            /\ pc' = IF st.blocked THEN "blocked" ELSE "checkShortExit"
    /\ UNCHANGED <<now, ticks, lastDailyReset, pending, sym, ltp, mu, symbolToToken,
                   stockStrategies, paperTrading,
                   sinceBrainUpdate, clientVars, otherVars>>

\* checkShortExit, and the end of the iteration.
CheckShortExit ==
    /\ pc = "checkShortExit"
    /\ \E ok \in OrderOutcomes :
        LET st == checkShortExit(Snapshot, sym, ltp, stockStrategies, ok)
        IN  /\ Store(st)
            /\ pc' = IF st.blocked THEN "blocked" ELSE "poll"
    /\ sym' = ""
    /\ ltp' = 0
    /\ UNCHANGED <<now, ticks, lastDailyReset, pending, mu, symbolToToken,
                   stockStrategies, paperTrading,
                   sinceBrainUpdate, clientVars, otherVars>>

\* The range loop is over: the loop body ends and the next tick is awaited.
PollEnd ==
    /\ pc = "poll"
    /\ pending \subseteq {"TATAMOTORS"}
    /\ pending' = {}
    /\ pc' = "idle"
    /\ trace' = <<>>
    /\ UNCHANGED <<sym, ltp, now, ticks, lastDailyReset, mu, symbolToToken,
                   highLow, ltpHistory, longPositions, shortPositions,
                   stockStrategies, paperTrading, dailyPnL, tradeHistory,
                   sinceBrainUpdate, clientVars, otherVars>>

\* The polling loop while the clock stays in its zone.
Next ==
    \/ Tick
    \/ SquareOffBegin
    \/ Reload
    \/ Poll
    \/ CheckAllEntries
    \/ CheckLongExit
    \/ CheckShortExit
    \/ PollEnd

Spec == Init /\ [][Next]_vars

\* The polling loop with SBIN as the one ticker of the watchlist.
InitDrift ==
    /\ now = 0
    /\ ticks = 0
    /\ lastDailyReset = UTCDay(now)
    /\ sinceBrainUpdate = 0
    /\ pc = "idle"
    /\ pending = {}
    /\ sym = ""
    /\ ltp = 0
    /\ mu = "free"
    /\ symbolToToken = [s \in {"SBIN"} |-> TokenOf(s)]
    /\ highLow = EmptyMap
    /\ ltpHistory = EmptyMap
    /\ longPositions = EmptyMap
    /\ shortPositions = EmptyMap
    /\ stockStrategies \in ConfigFiles
    /\ paperTrading \in BOOLEAN
    /\ dailyPnL = 0
    /\ tradeHistory = <<>>
    /\ trace = <<>>
    /\ InitClient
    /\ InitOther(<<"SBIN">>)

SpecDrift == InitDrift /\ [][Next]_vars

\* The polling loop through the day: the clock advances, and the square-off
\* runs once it is due. INFY is the one ticker the start-up resolved.
InitDay ==
    /\ now = 0
    /\ ticks = 0
    /\ lastDailyReset = UTCDay(now)
    /\ sinceBrainUpdate = 0
    /\ pc = "idle"
    /\ pending = {}
    /\ sym = ""
    /\ ltp = 0
    /\ mu = "free"
    /\ symbolToToken = [s \in {"INFY", "TATAMOTORS"} |-> TokenOf(s)]
    /\ highLow = EmptyMap
    /\ ltpHistory = EmptyMap
    /\ longPositions = EmptyMap
    /\ shortPositions = EmptyMap
    /\ stockStrategies \in ConfigFiles
    /\ paperTrading \in BOOLEAN
    /\ dailyPnL = 0
    /\ tradeHistory = <<>>
    /\ trace = <<>>
    /\ InitClient
    /\ InitOther(<<"INFY", "TATAMOTORS">>)

NextDay ==
    \/ Advance
    \/ Tick
    \/ SquareOffBegin
    \/ SquareOffLong
    \/ SquareOffNext
    \/ SquareOffShort
    \/ SquareOffEnd
    \/ Reload
    \/ Poll
    \/ CheckAllEntries
    \/ CheckLongExit
    \/ CheckShortExit
    \/ PollEnd

SpecDay == InitDay /\ [][NextDay]_vars

\* Time passes overnight as well: the clock runs on into the same zones of
\* the next day.
AdvanceOvernight ==
    /\ pc = "idle"
    /\ now < MaxClock + ZonesPerDay
    /\ now' = now + 1
    /\ sinceBrainUpdate' = ReloadEvery
    /\ UNCHANGED <<sym, ltp, ticks, lastDailyReset, pc, pending, mu, symbolToToken,
                   highLow, ltpHistory, longPositions, shortPositions,
                   stockStrategies, paperTrading, dailyPnL, tradeHistory, trace,
                   clientVars, otherVars>>

\* The polling loop of a process started before 05:30 exchange time, in the
\* last hours of the UTC day before the trading day, with paperTrading as
\* the source declares it.
InitNight ==
    /\ now = ZonesPerDay - 1
    /\ ticks = 0
    /\ lastDailyReset = UTCDay(now)
    /\ sinceBrainUpdate = 0
    /\ pc = "idle"
    /\ pending = {}
    /\ sym = ""
    /\ ltp = 0
    /\ mu = "free"
    /\ symbolToToken = [s \in {"INFY", "TATAMOTORS"} |-> TokenOf(s)]
    /\ highLow = EmptyMap
    /\ ltpHistory = EmptyMap
    /\ longPositions = EmptyMap
    /\ shortPositions = EmptyMap
    /\ stockStrategies \in ConfigFiles
    /\ paperTrading = TRUE
    /\ dailyPnL = 0
    /\ tradeHistory = <<>>
    /\ trace = <<>>
    /\ InitClient
    /\ InitOther(<<"INFY", "TATAMOTORS">>)

NextNight ==
    \/ AdvanceOvernight
    \/ Tick
    \/ SquareOffBegin
    \/ SquareOffLong
    \/ SquareOffNext
    \/ SquareOffShort
    \/ SquareOffEnd
    \/ Reload
    \/ Poll
    \/ CheckAllEntries
    \/ CheckLongExit
    \/ CheckShortExit
    \/ PollEnd

SpecNight == InitNight /\ [][NextNight]_vars

(* ---------------- gateway calls ---------------- *)

\* A call has returned: the client's state and the return value are kept.
Returned(r) ==
    /\ sessionToken' = r.gw.token
    /\ sent' = r.gw.sent
    /\ reauths' = r.gw.reauths
    /\ ret' = r.ret
    /\ calls' = calls + 1
    /\ UNCHANGED <<authSent, authRet>>
    /\ UNCHANGED engineVars
    /\ UNCHANGED otherVars

\* One call of a client function: the response its request gets and, on a
\* session marker, the outcome of the re-authentication.
CallSearchScrip ==
    /\ calls < MaxCalls
    /\ \E net \in Transport, body \in Bodies, auth \in AuthOutcomes :
        Returned(SearchScrip(Gateway, net, body, auth))

CallGetLTP ==
    /\ calls < MaxCalls
    /\ \E net \in Transport, body \in Bodies, auth \in AuthOutcomes :
        Returned(GetLTP(Gateway, net, body, auth))

CallPlaceOrder ==
    /\ calls < MaxCalls
    /\ \E net \in Transport, body \in Bodies, auth \in AuthOutcomes :
        Returned(PlaceOrder(Gateway, net, body, auth))

\* The client on its own, with or without a token cached at the start.
InitGateway ==
    /\ now = 0
    /\ ticks = 0
    /\ lastDailyReset = UTCDay(now)
    /\ sinceBrainUpdate = 0
    /\ pc = "idle"
    /\ pending = {}
    /\ sym = ""
    /\ ltp = 0
    /\ mu = "free"
    /\ symbolToToken = EmptyMap
    /\ highLow = EmptyMap
    /\ ltpHistory = EmptyMap
    /\ longPositions = EmptyMap
    /\ shortPositions = EmptyMap
    /\ stockStrategies = EmptyMap
    /\ paperTrading = FALSE
    /\ dailyPnL = 0
    /\ tradeHistory = <<>>
    /\ trace = <<>>
    /\ sessionToken \in {"", "t1"}
    /\ sent = <<>>
    /\ reauths = 0
    /\ calls = 0
    /\ ret = NoReturn
    /\ authSent = 0
    /\ authRet = NoAuthReturn
    /\ InitOther(<<>>)

NextGateway ==
    \/ CallSearchScrip
    \/ CallGetLTP
    \/ CallPlaceOrder

SpecGateway == InitGateway /\ [][NextGateway]_vars

\* token, err := auth.GetSessionToken(...); if err != nil { log.Fatalf(...) };
\* session.Set(token): the authentication of the start-up and the one before
\* the tickers are resolved. A failure ends the process.
Authenticate ==
    /\ pc = "idle"
    /\ authSent < MaxCalls
    /\ \E requestCode \in RequestCodes, net \in Transport, body \in AuthBodies :
        LET r == GetSessionToken(requestCode, net, body)
        IN  /\ authRet' = r
            /\ authSent' = authSent + r.requests
            /\ sessionToken' = IF r.err = "" THEN r.token ELSE sessionToken
            /\ pc' = IF r.err = "" THEN pc ELSE "exited"
    /\ UNCHANGED <<sent, reauths, calls, ret>>
    /\ UNCHANGED <<now, ticks, lastDailyReset, sinceBrainUpdate, pending, sym, ltp, mu,
                   symbolToToken, highLow, ltpHistory, longPositions, shortPositions,
                   stockStrategies, paperTrading, dailyPnL, tradeHistory, trace>>
    /\ UNCHANGED otherVars

NextAuth == Authenticate

\* The authentications of the start-up on their own.
SpecAuth == InitGateway /\ [][NextAuth]_vars



(* ---------------- the start-up ---------------- *)

\* A candidate of a search result: its trading symbol, as the ticker and the
\* series suffix, and its token.
Candidate(name, series, token) == [name |-> name, series |-> series, Token |-> token]
\* strings.Contains(v.Tsym, "-EQ")
IsEQ(v) == v.series = "EQ"

\* What a search can meet: the transport's outcome, the response body and the
\* outcome of a re-authentication MakeRequest starts on a session marker.
SearchKinds ==
    {"transport error", "found", "no equity", "not ok", "not json",
     "session marker, re-auth ok", "session marker, re-auth fails"}
SearchReply(json, stat, phrases, values) ==
    [json |-> json, stat |-> stat, lp |-> "", phrases |-> phrases, values |-> values]
SearchOutcome(kind, t) ==
    LET Outcome(net, body, ok) ==
            [net |-> net, body |-> body, auth |-> [ok |-> ok, token |-> IF ok THEN "t2" ELSE ""]]
    IN  IF kind = "transport error"
        THEN Outcome("error", SearchReply(FALSE, "", {}, <<>>), FALSE)
        ELSE IF kind = "found"
        THEN Outcome("response",
                     SearchReply(TRUE, "Ok", {},
                                 <<Candidate(t, "BE", "be-" \o t), Candidate(t, "EQ", TokenOf(t)),
                                   Candidate(t \o "1", "EQ", "other")>>), FALSE)
        ELSE IF kind = "no equity"
        THEN Outcome("response",
                     SearchReply(TRUE, "Ok", {}, <<Candidate(t, "BE", "be-" \o t)>>), FALSE)
        ELSE IF kind = "not ok"
        THEN Outcome("response", SearchReply(TRUE, "Not_Ok", {}, <<>>), FALSE)
        ELSE IF kind = "not json"
        THEN Outcome("response", SearchReply(FALSE, "", {}, <<>>), FALSE)
        ELSE Outcome("response",
                     SearchReply(TRUE, "Not_Ok", {"Session Expired", "Invalid Session Key"}, <<>>),
                     kind = "session marker, re-auth ok")

\* resolveTicker taking the first candidate, of whatever series.
resolveTickerAnySeries(r, t, kind) ==
    LET out == SearchOutcome(kind, t)
        call == SearchScrip(r.gw, out.net, out.body, out.auth)
        body == call.ret.mrBody
        hits == body.values
        r1 == [r EXCEPT !.gw = call.gw, !.searched = Append(@, t),
                        !.replies = Append(@, [ticker |-> t, err |-> call.ret.err,
                                               body |-> body])]
    IN  IF call.ret.err # "" THEN r1
        ELSE IF ~body.json THEN r1
        ELSE IF body.stat # "Ok" THEN r1
        ELSE IF hits = <<>> THEN r1
        ELSE [r1 EXCEPT !.map = MapPut(@, t, hits[1].Token)]

\* The body of "for _, sym := range stocks.Tickers": SearchScrip, the parse
\* of its result and the first candidate of the equity series.
resolveTicker(r, t, kind) ==
    LET out == SearchOutcome(kind, t)
        call == SearchScrip(r.gw, out.net, out.body, out.auth)
        body == call.ret.mrBody
        hits == SelectSeq(body.values, IsEQ)
        r1 == [r EXCEPT !.gw = call.gw, !.searched = Append(@, t),
                        !.replies = Append(@, [ticker |-> t, err |-> call.ret.err,
                                               body |-> body])]
    IN  IF call.ret.err # "" THEN r1
        ELSE IF ~body.json THEN r1
        ELSE IF body.stat # "Ok" THEN r1
        ELSE IF hits = <<>> THEN r1
        ELSE [r1 EXCEPT !.map = MapPut(@, t, hits[1].Token)]

\* The loop over the watchlist from its i-th ticker on.
RECURSIVE resolveFrom(_, _, _, _)
resolveFrom(r, watchlist, kinds, i) ==
    IF i > Len(watchlist) THEN r
    ELSE resolveFrom(resolveTicker(r, watchlist[i], kinds[i]), watchlist, kinds, i + 1)

\* The client's state of a process that has just authenticated with token.
FreshGateway(token) ==
    [Gateway EXCEPT !.token = token, !.sent = <<>>, !.reauths = 0]

\* A process start up to "Mapped %d/%d symbols": main has authenticated and
\* loaded the watchlist; the cache is loaded, or else the session is renewed
\* (a failure is fatal), every ticker is searched and the map is saved.
Startup ==
    /\ pc \in {"boot", "loaded", "resolved", "exited"}
    /\ LET load == loadSavedTokenMap(tokenFile, tickers)
       IN  IF load.ok
           THEN /\ symbolToToken' = load.map
                /\ searched' = <<>>
                /\ resolution' = NoResolution
                /\ pc' = "loaded"
                /\ sessionToken' = "t1"
                /\ sent' = <<>>
                /\ reauths' = 0
                /\ authRet' = NoAuthReturn
                /\ authSent' = 0
                /\ UNCHANGED tokenFile
           ELSE \E requestCode \in RequestCodes, net \in Transport, body \in AuthBodies :
                LET a == GetSessionToken(requestCode, net, body)
                IN  /\ authRet' = a
                    /\ authSent' = a.requests
                    /\ IF a.err # ""
                       THEN /\ pc' = "exited"
                            /\ symbolToToken' = EmptyMap
                            /\ searched' = <<>>
                            /\ resolution' = NoResolution
                            /\ sessionToken' = "t1"
                            /\ sent' = <<>>
                            /\ reauths' = 0
                            /\ UNCHANGED tokenFile
                       ELSE \E kinds \in [1 .. Len(tickers) -> SearchKinds] :
                            LET r == resolveFrom([gw |-> FreshGateway(a.token), map |-> EmptyMap,
                                                  searched |-> <<>>, replies |-> <<>>],
                                                 tickers, kinds, 1)
                            IN  /\ symbolToToken' = r.map
                                /\ tokenFile' = saveTokenMap(r.map)
                                /\ searched' = r.searched
                                /\ resolution' = [replies |-> r.replies, saves |-> 1]
                                /\ sessionToken' = r.gw.token
                                /\ sent' = r.gw.sent
                                /\ reauths' = r.gw.reauths
                                /\ pc' = "resolved"
    /\ UNCHANGED <<now, ticks, lastDailyReset, sinceBrainUpdate, pending, sym, ltp, mu,
                   highLow, ltpHistory, longPositions, shortPositions, stockStrategies,
                   paperTrading, dailyPnL, tradeHistory, trace>>
    /\ UNCHANGED <<calls, ret, observed, tickers>>

\* Watchlists of data/stocks.json (empty when stocks.Load failed) and states
\* of data/token_map.json that are explored.
Watchlists ==
    {<<>>, <<"INFY">>, <<"TCS">>, <<"INFY", "TCS">>, <<"TCS", "INFY">>, <<"INFY", "INFY">>}
CacheFiles ==
    { NoFile,
      CacheFile(TRUE, FALSE, <<>>),
      CacheFile(TRUE, TRUE, <<>>),
      CacheFile(TRUE, TRUE, <<Entry("INFY", "tok-INFY")>>),
      CacheFile(TRUE, TRUE, <<Entry("SBIN", "tok-SBIN"), Entry("INFY", "old")>>),
      CacheFile(TRUE, TRUE, <<Entry("INFY", "old"), Entry("INFY", "tok-INFY")>>) }

\* A process start that has reached "Mapping symbols to tokens...".
InitStartup ==
    /\ now = 0
    /\ ticks = 0
    /\ lastDailyReset = UTCDay(now)
    /\ sinceBrainUpdate = 0
    /\ pc = "boot"
    /\ pending = {}
    /\ sym = ""
    /\ ltp = 0
    /\ mu = "free"
    /\ symbolToToken = EmptyMap
    /\ highLow = EmptyMap
    /\ ltpHistory = EmptyMap
    /\ longPositions = EmptyMap
    /\ shortPositions = EmptyMap
    /\ stockStrategies = EmptyMap
    /\ paperTrading = TRUE
    /\ dailyPnL = 0
    /\ tradeHistory = <<>>
    /\ trace = <<>>
    /\ InitClient
    /\ observed = EmptyMap
    /\ tickers \in Watchlists
    /\ tokenFile \in CacheFiles
    /\ searched = <<>>
    /\ resolution = NoResolution

NextStartup == Startup

SpecStartup == InitStartup /\ [][NextStartup]_vars

(* ---------------- the trackers on their own ---------------- *)

\* Prices handed to the trackers that are explored, over all symbols.
MaxObservations == 5

\* The symbols the trackers are handed prices for.
Tracked == {"INFY", "TCS"}

Observations(s) == MapGet(observed, s, <<>>)

\* updateHighLow(sym, ltp); updateLTPHistory(sym, ltp) for one fetched price,
\* as a poll cycle calls them.
Observe ==
    /\ pc = "idle"
    /\ Len(Observations("INFY")) + Len(Observations("TCS")) < MaxObservations
    /\ \E s \in Tracked, p \in Prices :
        LET st == updateLTPHistory(updateHighLow(Snapshot, s, p), s, p)
        IN  /\ highLow' = st.hl
            /\ ltpHistory' = st.hist
            /\ observed' = MapPut(observed, s, Append(Observations(s), p))
    /\ UNCHANGED <<now, ticks, lastDailyReset, sinceBrainUpdate, pc, pending, sym, ltp, mu,
                   symbolToToken, longPositions, shortPositions, stockStrategies,
                   paperTrading, dailyPnL, tradeHistory, trace>>
    /\ UNCHANGED clientVars
    /\ UNCHANGED <<tickers, tokenFile, searched, resolution>>

NextHistory == Observe

SpecHistory == InitGateway /\ [][NextHistory]_vars

(* ---------------- properties ---------------- *)

OpenPositions == Cardinality(DOMAIN longPositions) + Cardinality(DOMAIN shortPositions)

\* C1: in every reachable state the number of open positions, long plus
\* short over all symbols, is at most the cap defaultMaxPositions.
C1_PositionCap == OpenPositions <= defaultMaxPositions

\* C2: while a symbol holds an open position of a side, no entry order of
\* that side is submitted for it (so the position is never replaced).
C2_NoEntryWhileOpen ==
    [][\A i \in 1 .. Len(trace') :
          /\ (trace'[i].op = "enterLong" /\ trace'[i].status # "skipped")
                => trace'[i].sym \notin DOMAIN longPositions
          /\ (trace'[i].op = "enterShort" /\ trace'[i].status # "skipped")
                => trace'[i].sym \notin DOMAIN shortPositions]_vars

\* C3: every tick runs to completion: the goroutine never waits forever in
\* mu.Lock() for a mutex it holds itself.
C3_TickCompletes == pc # "blocked"

\* A closing order of the square-off in progress was submitted for s.
SquareOffOrdered(op, s) ==
    \E i \in 1 .. Len(trace) : trace[i].op = op /\ trace[i].sym = s

\* The square-off of a tick past 15:10 has run as far as it ever will: it
\* returned, or it is stuck while holding the mutex.
SquareOffOver ==
    \/ pc = "reload" /\ SquareOffDue(now)
    \/ pc = "blocked" /\ mu = "held"

\* C4: once the square-off of a tick past 15:10 is over, every position that
\* was open at its start has had a closing order submitted, and if all of
\* those orders succeeded no long and no short position is left.
C4_SquareOffClosesAll ==
    SquareOffOver =>
        /\ \A s \in DOMAIN longPositions : SquareOffOrdered("exitLong", s)
        /\ \A s \in DOMAIN shortPositions : SquareOffOrdered("exitShort", s)
        /\ (\A i \in 1 .. Len(trace) : trace[i].status = "ok")
              => (DOMAIN longPositions = {} /\ DOMAIN shortPositions = {})

\* The step took a long (short) exit whose closing order failed.
FailedClose(op, s) ==
    \E i \in 1 .. Len(trace') :
        trace'[i].op = op /\ trace'[i].sym = s /\ trace'[i].status = "failed"

\* C5: when an exit condition fires and the closing order fails, the
\* position stays open with its entry price and quantity, no trade is
\* recorded and dailyPnL is unchanged; and every poll cycle of a symbol
\* evaluates the exit of the position it holds.
C5_FailedCloseKeepsPosition ==
    [][/\ \A s \in Symbols :
            /\ FailedClose("exitLong", s) =>
                  /\ s \in DOMAIN longPositions /\ s \in DOMAIN longPositions'
                  /\ longPositions'[s].EntryPrice = longPositions[s].EntryPrice
                  /\ longPositions'[s].Qty = longPositions[s].Qty
                  /\ tradeHistory' = tradeHistory
                  /\ dailyPnL' = dailyPnL
            /\ FailedClose("exitShort", s) =>
                  /\ s \in DOMAIN shortPositions /\ s \in DOMAIN shortPositions'
                  /\ shortPositions'[s].EntryPrice = shortPositions[s].EntryPrice
                  /\ shortPositions'[s].Qty = shortPositions[s].Qty
                  /\ tradeHistory' = tradeHistory
                  /\ dailyPnL' = dailyPnL
       /\ (pc = "checkLongExit" /\ pc' # pc /\ sym \in DOMAIN longPositions)
             => \E i \in 1 .. Len(trace') :
                    trace'[i].op = "checkLongExit" /\ trace'[i].sym = sym
       /\ (pc = "checkShortExit" /\ pc' # pc /\ sym \in DOMAIN shortPositions)
             => \E i \in 1 .. Len(trace') :
                    trace'[i].op = "checkShortExit" /\ trace'[i].sym = sym]_vars

\* A failed closing order of a rule-driven exit has left the position open.
C5_Witness ==
    \E i \in 1 .. Len(trace) :
        /\ trace[i].op = "exitLong"
        /\ trace[i].status = "failed"
        /\ trace[i].reason # "EOD Square-off"
        /\ trace[i].sym \in DOMAIN longPositions
        /\ longPositions[trace[i].sym].Qty = trace[i].qty

\* C6: a position leaves the open set only in a step whose closing order for
\* that symbol and quantity succeeded, and every successful closing order is
\* followed by the removal of its position.
C6_RemovalFollowsClose ==
    [][/\ \A s \in DOMAIN longPositions \ DOMAIN longPositions' :
            \E i \in 1 .. Len(trace') :
                /\ trace'[i].op = "exitLong" /\ trace'[i].sym = s
                /\ trace'[i].side = "SELL" /\ trace'[i].status = "ok"
                /\ trace'[i].qty = longPositions[s].Qty
       /\ \A s \in DOMAIN shortPositions \ DOMAIN shortPositions' :
            \E i \in 1 .. Len(trace') :
                /\ trace'[i].op = "exitShort" /\ trace'[i].sym = s
                /\ trace'[i].side = "BUY" /\ trace'[i].status = "ok"
                /\ trace'[i].qty = shortPositions[s].Qty
       /\ \A i \in 1 .. Len(trace') :
            /\ (trace'[i].op = "exitLong" /\ trace'[i].status = "ok")
                  => trace'[i].sym \notin DOMAIN longPositions'
            /\ (trace'[i].op = "exitShort" /\ trace'[i].status = "ok")
                  => trace'[i].sym \notin DOMAIN shortPositions']_vars

\* The exit events of the trace, and the rule an evaluation has to exit by.
Exits(op) == {j \in 1 .. Len(trace) : trace[j].op = op}
LongRule(e) ==
    LET pos == [EntryPrice |-> e.entry, HighestPrice |-> e.extreme]
        strat == getStrategy(stockStrategies, e.sym)
    IN  IF LongFixedSL(pos, e.price, strat) THEN "Fixed SL"
        ELSE IF LongTarget(pos, e.price, strat) THEN "Target"
        ELSE IF LongTrailing(pos, e.price) THEN "Trailing SL"
        ELSE "none"
ShortRule(e) ==
    LET pos == [EntryPrice |-> e.entry, LowestPrice |-> e.extreme]
        strat == getStrategy(stockStrategies, e.sym)
    IN  IF ShortFixedSL(pos, e.price, strat) THEN "Fixed SL"
        ELSE IF ShortTarget(pos, e.price, strat) THEN "Target"
        ELSE IF ShortTrailing(pos, e.price) THEN "Trailing SL"
        ELSE "none"

\* C7: one exit evaluation tries fixed stop-loss, target, trailing stop in
\* that order and submits at most one closing order, for the first rule that
\* matches: a price that meets stop-loss and target exits as "Fixed SL".
C7_ExitPrecedence ==
    \A i \in 1 .. Len(trace) :
        /\ trace[i].op = "checkLongExit" =>
              /\ Cardinality(Exits("exitLong")) <= 1
              /\ (LongRule(trace[i]) = "none") = (Exits("exitLong") = {})
              /\ \A j \in Exits("exitLong") :
                    /\ j > i
                    /\ trace[j].reason = LongRule(trace[i])
                    /\ trace[j].qty = trace[i].qty
        /\ trace[i].op = "checkShortExit" =>
              /\ Cardinality(Exits("exitShort")) <= 1
              /\ (ShortRule(trace[i]) = "none") = (Exits("exitShort") = {})
              /\ \A j \in Exits("exitShort") :
                    /\ j > i
                    /\ trace[j].reason = ShortRule(trace[i])
                    /\ trace[j].qty = trace[i].qty

\* An evaluation whose price met both the stop-loss and the target condition
\* has exited as "Fixed SL".
C7_Witness ==
    \E i \in 1 .. Len(trace) :
        /\ trace[i].op = "exitLong"
        /\ trace[i].reason = "Fixed SL"
        /\ LongTarget([EntryPrice |-> trace[i].entry], trace[i].price,
                      getStrategy(stockStrategies, trace[i].sym))
        /\ LongFixedSL([EntryPrice |-> trace[i].entry], trace[i].price,
                       getStrategy(stockStrategies, trace[i].sym))

\* The call of this step received a body with a session marker.
MarkerSeen ==
    /\ calls' # calls
    /\ Len(ret'.received) > 0
    /\ \/ Contains(ret'.received[1], "Invalid Session Key")
       \/ Contains(ret'.received[1], "Connection failed")

\* C8: a response with a session marker makes the call re-authenticate once,
\* cache the new token, send the request once more with the new token and
\* return the response of that second request.
C8_ReauthThenRetryOnce ==
    [][MarkerSeen =>
          /\ reauths' = reauths + 1
          /\ ret'.reauth = "ok" =>
                /\ Len(sent') = Len(sent) + 2
                /\ sent'[Len(sent')].jKey = sessionToken'
                /\ sent'[Len(sent')].endpoint = sent'[Len(sent') - 1].endpoint
                /\ Len(ret'.received) = 2
                /\ ret'.mrBody = ret'.received[2]]_vars

\* C9: when the re-authentication after a session marker fails, the call
\* returns an error and no body, leaves the cached token alone and sends no
\* second request.
C9_ReauthFailureSurfaced ==
    [][(MarkerSeen /\ ret'.reauth = "failed") =>
          /\ ret'.mrErr # ""
          /\ sessionToken' = sessionToken
          /\ Len(sent') = Len(sent) + 1]_vars

\* C10: a gateway call made while the cached token is empty fails with the
\* no-session error, hands no request to the transport and changes no state.
C10_NoSessionNoRequest ==
    [][(sessionToken = "" /\ calls' # calls) =>
          /\ ret'.err = ErrNoSession
          /\ ret'.mrErr = ErrNoSession
          /\ sent' = sent
          /\ sessionToken' = sessionToken
          /\ reauths' = reauths
          /\ UNCHANGED engineVars]_vars

\* An order placement was refused for want of a token after an earlier call
\* had gone out.
C10_Witness ==
    /\ sessionToken = ""
    /\ ret.call = "PlaceOrder"
    /\ ret.err = ErrNoSession
    /\ Len(sent) > 0

\* C11: GetSessionToken returns a token (a nil error) only when the request
\* code is not empty and the response's status is "Ok"; with an empty
\* request code it returns an error and sends nothing; for any other status
\* it returns an error and no token.
C11_TokenOnlyOnOk ==
    [][authRet' # authRet =>
          /\ authRet'.err = "" =>
                /\ authRet'.requestCode # ""
                /\ authRet'.body.stat = "Ok"
                /\ authRet'.token = authRet'.body.token
          /\ authRet'.requestCode = "" =>
                /\ authRet'.err # ""
                /\ authRet'.token = ""
                /\ authSent' = authSent
          /\ authRet'.body.stat # "Ok" =>
                /\ authRet'.err # ""
                /\ authRet'.token = ""]_vars

\* A response whose status is not "Ok" has been turned down although it
\* carries a token.
C11_Witness ==
    /\ authRet.requestCode = "rc"
    /\ authRet.net = "response"
    /\ authRet.body = AuthBody(TRUE, "Not_Ok", "t2")
    /\ authRet.err # ""
    /\ authRet.token = ""
    /\ authSent > 0

\* C12: for every sequence of observed prices of a symbol, a price of 0
\* included, the range's High never decreases and its Low never increases
\* once the symbol has been observed, and the first observation sets both
\* to the observed price.
C12_RangeMonotone ==
    [][\A s \in DOMAIN highLow' :
          IF s \in DOMAIN highLow
          THEN /\ highLow'[s].High >= highLow[s].High
               /\ highLow'[s].Low <= highLow[s].Low
          ELSE /\ highLow'[s].High = ltp'
               /\ highLow'[s].Low = ltp']_vars

\* C13: after any sequence of observations a symbol's price history has at
\* most historyWindow entries and is the last min(k, historyWindow) of the k
\* prices observed for that symbol, in arrival order.
C13_HistoryIsRecentWindow ==
    /\ DOMAIN ltpHistory = DOMAIN observed
    /\ \A s \in DOMAIN observed :
        LET k == Len(observed[s])
            n == min(k, historyWindow)
        IN  /\ Len(ltpHistory[s]) <= historyWindow
            /\ ltpHistory[s] = SubSeq(observed[s], k - n + 1, k)

\* A symbol observed more often than the window is long, whose oldest price
\* differs from the ones kept.
C13_Witness ==
    \E s \in DOMAIN observed :
        /\ Len(observed[s]) > historyWindow
        /\ observed[s][1] # observed[s][Len(observed[s])]
        /\ observed[s][1] # observed[s][2]
        /\ Len(ltpHistory[s]) = historyWindow
        /\ ltpHistory[s][historyWindow] = observed[s][Len(observed[s])]

\* The step opened a position of the given side for s: a new lifetime begins.
Entered(op, s) ==
    \E i \in 1..Len(trace') :
        trace'[i].op = op /\ trace'[i].sym = s /\ trace'[i].status = "ok"

EntryChecks ==
    checkAllEntries(Snapshot', sym', ltp', stockStrategies, [i \in 1 .. 4 |-> TRUE], "min")

\* C15: a cycle that fetches a price above the session high of the earlier
\* observations by more than the breakout buffer, for a symbol without an open
\* Long, below the position cap and with a quantity of at least 1, opens a
\* Long at that price when its order succeeds.
C15_BreakoutOpensLong ==
    [][(/\ pc = "poll"
        /\ pc' = "checkAllEntries"
        /\ MapGet(highLow, sym', ZeroHL).High > 0
        /\ sym' \notin DOMAIN longPositions
        /\ OpenPositions < defaultMaxPositions
        /\ Quantity(ltp', getStrategy(stockStrategies, sym').Leverage, "min") >= 1
        /\ ltp' * 1000 > MapGet(highLow, sym', ZeroHL).High
                            * (1000 + getStrategy(stockStrategies, sym').BreakoutLong))
       => (/\ sym' \in DOMAIN EntryChecks.long
           /\ EntryChecks.long[sym'].EntryPrice = ltp')]_vars

\* The ledger holds trades, all of them closed earlier on the day of t, before
\* the daily-summary time.
ClosedToday(t) ==
    /\ tradeHistory # <<>>
    /\ \A i \in 1 .. Len(tradeHistory) :
        /\ UTCDay(tradeHistory[i].ExitTime) = UTCDay(t)
        /\ Zone(tradeHistory[i].ExitTime) < 2

\* C16: a tick at the daily-summary time that finds trades closed earlier that
\* day in the ledger, the first day of the run included, emits the summary:
\* after it the ledger is empty and dailyPnL is 0.
C16_SummaryOnTheDay ==
    [][(/\ pc = "idle"
        /\ pc' = "squareOff"
        /\ Zone(now) = 2
        /\ ClosedToday(now))
       => (tradeHistory' = <<>> /\ dailyPnL' = 0)]_vars

\* The step is a tick that calls printDailySummary.
SummaryRuns == pc = "idle" /\ pc' = "squareOff" /\ SummaryDue(now, lastDailyReset)

\* C17: once printDailySummary has run in a tick, it is due at no later time
\* of the same day, whether the ledger held trades or was empty.
C17_SummaryOncePerDay ==
    [][SummaryRuns =>
          \A t \in now' .. (MaxClock + ZonesPerDay) :
              UTCDay(t) = UTCDay(now') => ~SummaryDue(t, lastDailyReset')]_vars

\* C18: dailyPnL is the sum of the PnL of the records in the ledger, the Long
\* and Short sums of the summary add up to it, and a summary of a non-empty
\* ledger leaves the ledger empty and dailyPnL 0.
C18_LedgerSums ==
    /\ [](/\ dailyPnL = PnLSum(tradeHistory)
          /\ longPnL(tradeHistory) + shortPnL(tradeHistory) = dailyPnL)
    /\ [][(SummaryRuns /\ tradeHistory # <<>>)
             => (tradeHistory' = <<>> /\ dailyPnL' = 0)]_vars

\* The tick after which the ledger is empty because its summary has just
\* cleared it: lastDailyReset moves only in a summary of a non-empty ledger.
C18_Witness ==
    /\ pc = "squareOff"
    /\ tradeHistory = <<>>
    /\ dailyPnL = 0
    /\ lastDailyReset = UTCDay(now)
    /\ lastDailyReset > UTCDay(ZonesPerDay - 1)

\* The cache can be read and parsed, and its mapping has as many entries as
\* the watchlist has tickers.
Acceptable ==
    /\ tokenFile.readable
    /\ tokenFile.json
    /\ Cardinality(DOMAIN Unmarshal(tokenFile.entries)) = Len(tickers)

\* C19 as stated: a start-up accepts the cache if and only if it can be read
\* and its mapping has the size of the watchlist; an accepted cache becomes
\* the in-memory mapping without a search, and after a rejected one every
\* ticker of the watchlist is searched.
C19_CacheAcceptedOnSize ==
    [][/\ pc' = "loaded" <=> Acceptable
       /\ Acceptable =>
            /\ symbolToToken' = Unmarshal(tokenFile.entries)
            /\ searched' = <<>>
            /\ sent' = <<>>
       /\ ~Acceptable => searched' = tickers]_vars

\* C19 amended: as above, but after a rejected cache the session is renewed
\* first; if that fails the process exits without a search, otherwise every
\* ticker of the watchlist is searched, in the order of the watchlist.
C19_CacheAcceptedOnSizeOrExit ==
    [][/\ pc' = "loaded" <=> Acceptable
       /\ Acceptable =>
            /\ symbolToToken' = Unmarshal(tokenFile.entries)
            /\ searched' = <<>>
            /\ sent' = <<>>
       /\ ~Acceptable =>
            \/ /\ authRet'.err # ""
               /\ pc' = "exited"
               /\ searched' = <<>>
            \/ /\ authRet'.err = ""
               /\ pc' = "resolved"
               /\ searched' = tickers]_vars

\* A cache of one entry accepted for a watchlist of one other ticker.
C19_Witness ==
    /\ pc = "loaded"
    /\ tickers = <<"TCS">>
    /\ DOMAIN symbolToToken = {"INFY"}
    /\ searched = <<>>

\* C20: the start-up after a resolution pass, with the watchlist unchanged,
\* loads the file the pass saved: the mapping is the one the pass left, and
\* no ticker is searched.
C20_CacheRoundTrip ==
    [][(pc = "resolved" /\ tokenFile = saveTokenMap(symbolToToken))
       => (/\ pc' = "loaded"
           /\ symbolToToken' = symbolToToken
           /\ searched' = <<>>)]_vars

\* The search returned a result with a candidate of the equity series.
HasEquity(reply) ==
    /\ reply.err = ""
    /\ reply.body.json
    /\ reply.body.stat = "Ok"
    /\ \E i \in 1 .. Len(reply.body.values) : IsEQ(reply.body.values[i])

\* The token of the first candidate of the equity series.
FirstEquityToken(reply) ==
    LET i == CHOOSE i \in 1 .. Len(reply.body.values) :
                 /\ IsEQ(reply.body.values[i])
                 /\ \A j \in 1 .. i - 1 : ~IsEQ(reply.body.values[j])
    IN  reply.body.values[i].Token

\* C21: after a resolution pass every ticker of the watchlist has been
\* searched, the mapping holds exactly the tickers whose search returned an
\* equity candidate, each with the token of the first such candidate, and the
\* cache file, written once, holds that mapping.
C21_PartialResolution ==
    pc = "resolved" =>
        LET replies == resolution.replies
        IN  /\ Len(replies) = Len(tickers)
            /\ \A i \in 1 .. Len(replies) : replies[i].ticker = tickers[i]
            /\ DOMAIN symbolToToken =
                   {replies[i].ticker : i \in {j \in 1 .. Len(replies) : HasEquity(replies[j])}}
            /\ \A i \in 1 .. Len(replies) :
                   (/\ HasEquity(replies[i])
                    /\ \A j \in i + 1 .. Len(replies) :
                           replies[j].ticker = replies[i].ticker => ~HasEquity(replies[j]))
                   => symbolToToken[replies[i].ticker] = FirstEquityToken(replies[i])
            /\ resolution.saves = 1
            /\ Unmarshal(tokenFile.entries) = symbolToToken

\* A pass over two tickers in which the search of the first failed and the
\* second was resolved.
C21_Witness ==
    /\ pc = "resolved"
    /\ Len(tickers) = 2
    /\ ~HasEquity(resolution.replies[1])
    /\ HasEquity(resolution.replies[2])
    /\ DOMAIN symbolToToken = {tickers[2]}
    /\ tickers[1] # tickers[2]

\* The step ran runBrainAndReload and the generator, the read of config.json
\* or its parse failed.
ReloadFailed ==
    /\ pc = "reload"
    /\ trace' # <<>>
    /\ trace'[1].op = "runBrainAndReload"
    /\ trace'[1].status = "failed"

\* C22: a reload that fails, at the generator, at the read or at the parse,
\* leaves stockStrategies as it was, and the tick goes on to poll every
\* resolved symbol.
C22_FailedReloadKeepsConfig ==
    [][ReloadFailed =>
          /\ stockStrategies' = stockStrategies
          /\ pc' = "poll"
          /\ pending' = DOMAIN symbolToToken]_vars

\* A reload whose parse failed while strategies were in force.
C22_Witness ==
    /\ pc = "poll"
    /\ trace # <<>>
    /\ trace[1].op = "runBrainAndReload"
    /\ trace[1].reason = "parse failed"
    /\ stockStrategies # EmptyMap

\* The step is an iteration of the polling loop whose GetLTP returned an error.
FetchFailed ==
    /\ pc = "poll"
    /\ trace' # <<>>
    /\ trace'[1].op = "GetLTP"
    /\ trace'[1].status = "failed"

\* The resolved symbols that are polled and whose price fetch never fails.
Reliable == {s \in DOMAIN symbolToToken \ {"TATAMOTORS"} : FetchErr \notin Quotes(s)}

\* C23: an iteration whose price fetch fails changes no price range, price
\* history, position or ledger and places no order; the loop goes on with the
\* symbols still to visit, a tick ends only when every polled symbol has been
\* visited, and a symbol whose own fetches succeed has been observed once in
\* every tick, whatever happened to the fetches of the others.
C23_FetchFailureSkipsSymbol ==
    /\ [][FetchFailed =>
             /\ UNCHANGED <<highLow, ltpHistory, longPositions, shortPositions,
                            tradeHistory, dailyPnL>>
             /\ Len(trace') = 1
             /\ pc' = "poll"
             /\ pending' = pending \ {trace'[1].sym}]_vars
    /\ [][(pc = "poll" /\ pc' = "idle") => pending \ {"TATAMOTORS"} = {}]_vars
    /\ [](pc = "idle" =>
             \A s \in Reliable :
                 Len(MapGet(ltpHistory, s, <<>>)) = min(ticks, historyWindow))

\* Two ticks in which every fetch for INFY failed and TCS was observed twice.
C23_Witness ==
    /\ pc = "idle"
    /\ ticks = 2
    /\ "INFY" \notin DOMAIN ltpHistory
    /\ "INFY" \notin DOMAIN highLow
    /\ Len(MapGet(ltpHistory, "TCS", <<>>)) = 2

\* C24: the entry checks of a cycle whose symbol has AllowShort = false in the
\* strategy in force call neither Short detector: no Short order of any
\* outcome is in the step's calls and shortPositions is unchanged; and no
\* step at all opens a Short for a symbol whose strategy forbids it.
C24_NoShortUnlessAllowed ==
    /\ [][(pc = "checkAllEntries" /\ ~getStrategy(stockStrategies, sym).AllowShort)
             => /\ shortPositions' = shortPositions
                /\ \A i \in 1 .. Len(trace') : trace'[i].op # "enterShort"]_vars
    /\ [][\A s \in DOMAIN shortPositions' :
             (s \notin DOMAIN shortPositions \/ shortPositions'[s] # shortPositions[s])
             => (Entered("enterShort", s) => getStrategy(stockStrategies, s).AllowShort)]_vars

\* The entry checks have run for a symbol that fell by more than the
\* quick-drop threshold while its strategy forbids Shorts and the cap leaves
\* room: no Short was opened.
C24_Witness ==
    /\ pc = "checkLongExit"
    /\ ~getStrategy(stockStrategies, sym).AllowShort
    /\ Len(MapGet(ltpHistory, sym, <<>>)) >= 2
    /\ LET hist == ltpHistory[sym]
       IN  /\ hist[Len(hist)] = ltp
           /\ hist[Len(hist) - 1] > 0
           /\ (hist[Len(hist) - 1] - ltp) * 1000 >= defaultQuickDrop * hist[Len(hist) - 1]
    /\ sym \notin DOMAIN shortPositions
    /\ sym \notin DOMAIN longPositions
    /\ OpenPositions < defaultMaxPositions

\* q = floor(budget / p): the integer with q <= budget / p < q + 1.
IsFloorOf(q, budget, p) == q * p <= budget /\ budget < (q + 1) * p

\* C25: every entry order that is submitted carries the quantity
\* floor(leverage * defaultBudget / price), which is at least 1; an entry that
\* is skipped had computed a quantity below 1; a position holds the quantity
\* of its order.
C25_QuantityIsFloor ==
    /\ \A i \in 1 .. Len(trace) :
        trace[i].op \in {"enterLong", "enterShort"} =>
            LET budget == defaultBudget * getStrategy(stockStrategies, trace[i].sym).Leverage
            IN  IF trace[i].status = "skipped"
                THEN trace[i].qty < 1
                ELSE /\ trace[i].qty >= 1
                     /\ IsFloorOf(trace[i].qty, budget, trace[i].price)
    /\ \A s \in DOMAIN longPositions : longPositions[s].Qty >= 1
    /\ \A s \in DOMAIN shortPositions : shortPositions[s].Qty >= 1

EntryOps == {"enterLong", "enterShort"}

\* The orders (skips excluded) the step just taken submitted through op.
OrdersOf(tr, op) == SelectSeq(tr, LAMBDA e : e.op = op /\ e.status # "skipped")

\* An entry order of the side failed and a later order of that side was
\* submitted in the same run of checkAllEntries.
OrderAfterFailure(tr, op) ==
    \E i, j \in 1 .. Len(OrdersOf(tr, op)) :
        i < j /\ OrdersOf(tr, op)[i].status = "failed"

\* What a run of checkAllEntries leaves alone: the range, the history and the
\* ledger always, and the positions of a side none of whose orders succeeded.
FailedEntryKeepsState ==
    pc = "checkAllEntries" =>
        /\ UNCHANGED <<highLow, ltpHistory, tradeHistory, dailyPnL>>
        /\ (\A i \in 1 .. Len(trace') : trace'[i].op = "enterLong" => trace'[i].status # "ok")
               => UNCHANGED longPositions
        /\ (\A i \in 1 .. Len(trace') : trace'[i].op = "enterShort" => trace'[i].status # "ok")
               => UNCHANGED shortPositions

\* C26 (as stated): a failed entry order creates no position and changes no
\* range, history or ledger, and no second entry order of that side is
\* submitted for the symbol by the same run of checkAllEntries.
C26_FailedEntryAbandoned ==
    [][/\ FailedEntryKeepsState
       /\ pc = "checkAllEntries" =>
            \A op \in EntryOps : ~OrderAfterFailure(trace', op)]_vars

\* C26 (amended): a failed entry order creates no position and changes no
\* range, history or ledger, and the detector whose order failed submits no
\* second order in the same run of checkAllEntries.
C26_FailedEntryNotRepeated ==
    [][/\ FailedEntryKeepsState
       /\ pc = "checkAllEntries" =>
            \A i, j \in 1 .. Len(trace') :
                (/\ trace'[i].op \in EntryOps
                 /\ trace'[j].op \in EntryOps
                 /\ trace'[i].reason = trace'[j].reason) => i = j]_vars

\* A Short entry order has just failed and the symbol holds no Short.
C26_Witness ==
    /\ pc = "checkLongExit"
    /\ \E i \in 1 .. Len(trace) : trace[i].op = "enterShort" /\ trace[i].status = "failed"
    /\ sym \notin DOMAIN shortPositions

\* The range and the history of s hold the price p just fetched.
Updated(hl, hist, s, p) ==
    /\ s \in DOMAIN hist
    /\ hist[s] # <<>>
    /\ hist[s][Len(hist[s])] = p
    /\ s \in DOMAIN hl
    /\ hl[s].Low <= p
    /\ p <= hl[s].High

\* The ops of the events of a step all lie in ops and all concern symbol s.
OnlyOps(tr, ops, s) == \A i \in 1 .. Len(tr) : tr[i].op \in ops /\ tr[i].sym = s

\* C27: within a tick the steps of a polled symbol run in the order fetch,
\* range and history update, entry detectors, Long exit check, Short exit
\* check, and the fetch of the next symbol starts only after the Short exit
\* check of the previous one.
C27_StepsInOrder ==
    [][/\ (pc = "poll" /\ pc' \notin {"poll", "idle"}) =>
            /\ sym = ""
            /\ sym' \in pending /\ pending' = pending \ {sym'}
            /\ OnlyOps(trace', {"GetLTP"}, sym')
            /\ Updated(highLow', ltpHistory', sym', ltp')
            /\ pc' \in {"checkAllEntries", "blocked"}
       /\ (pc = "poll" /\ pc' = "poll") =>
            /\ sym = "" /\ sym' = ""
            /\ OnlyOps(trace', {"GetLTP"}, CHOOSE s \in pending : s \notin pending')
            /\ UNCHANGED <<highLow, ltpHistory, longPositions, shortPositions>>
       /\ pc = "checkAllEntries" =>
            /\ Updated(highLow, ltpHistory, sym, ltp)
            /\ OnlyOps(trace', EntryOps, sym)
            /\ pc' \in {"checkLongExit", "blocked"}
            /\ UNCHANGED <<sym, ltp, pending, highLow, ltpHistory>>
       /\ pc = "checkLongExit" =>
            /\ OnlyOps(trace', {"checkLongExit", "exitLong"}, sym)
            /\ pc' \in {"checkShortExit", "blocked"}
            /\ UNCHANGED <<sym, ltp, pending, highLow, ltpHistory, shortPositions>>
       /\ pc = "checkShortExit" =>
            /\ OnlyOps(trace', {"checkShortExit", "exitShort"}, sym)
            /\ pc' \in {"poll", "blocked"}
            /\ sym' = ""
            /\ UNCHANGED <<pending, highLow, ltpHistory, longPositions>>
       /\ pc' \in {"checkAllEntries", "checkLongExit", "checkShortExit"} =>
            pc \in {"poll", "checkAllEntries", "checkLongExit"}]_vars

\* A second symbol has been through its five steps in the tick, after a first.
C27_Witness ==
    /\ pc = "poll"
    /\ sym = ""
    /\ \E s, t \in DOMAIN symbolToToken \ pending :
        /\ s # t
        /\ s \in DOMAIN ltpHistory
        /\ t \in DOMAIN ltpHistory

\* One access of the code to a shared variable: the variable, the source line,
\* and whether mu is held there.
Access(v, kind, line, held) == [v |-> v, kind |-> kind, line |-> line, held |-> held]

\* The accesses to the shared state that the code makes for the call recorded
\* by event e. squareOffAllPositions holds mu around its calls of exitLong and
\* exitShort; every other caller has released it.
Accesses(e) ==
    LET inSquareOff == e.reason = "EOD Square-off"
    IN  IF e.op = "GetLTP"
        THEN {Access("symbolToToken", "read", 242, FALSE)}
             \cup (IF e.status = "ok"
                   THEN {Access("highLow", "write", 565, TRUE),
                         Access("ltpHistory", "write", 582, TRUE)}
                   ELSE {})
        ELSE IF e.op = "enterLong"
        THEN (IF e.status # "skipped"
              THEN {Access("symbolToToken", "read", 295, FALSE)} ELSE {})
             \cup (IF e.status = "ok"
                   THEN {Access("longPositions", "write", 302, TRUE)} ELSE {})
        ELSE IF e.op = "enterShort"
        THEN (IF e.status # "skipped"
              THEN {Access("symbolToToken", "read", 320, FALSE)} ELSE {})
             \cup (IF e.status = "ok"
                   THEN {Access("shortPositions", "write", 327, TRUE)} ELSE {})
        ELSE IF e.op = "exitLong"
        THEN {Access("symbolToToken", "read", 342, inSquareOff)}
             \cup (IF e.status = "ok"
                   THEN {Access("longPositions", "write", 350, TRUE)} ELSE {})
        ELSE IF e.op = "exitShort"
        THEN {Access("symbolToToken", "read", 370, inSquareOff)}
             \cup (IF e.status = "ok"
                   THEN {Access("shortPositions", "write", 378, TRUE)} ELSE {})
        ELSE IF e.op = "checkLongExit"
        THEN {Access("longPositions", "read", 403, TRUE),
              Access("stockStrategies", "read", 546, TRUE),
              Access("longPositions", "write", 415, TRUE)}
        ELSE IF e.op = "checkShortExit"
        THEN {Access("shortPositions", "read", 437, TRUE),
              Access("stockStrategies", "read", 546, TRUE),
              Access("shortPositions", "write", 449, TRUE)}
        ELSE IF e.op = "runBrainAndReload" /\ e.status = "ok"
        THEN {Access("stockStrategies", "write", 536, TRUE),
              Access("stockStrategies", "read", 517, FALSE)}
        ELSE {}

\* C28: every access of the polling loop to the open positions, the range,
\* the history, the strategy config and the symbol-to-token map is made with
\* mu held.
C28_AccessesUnderLock ==
    \A i \in 1 .. Len(trace) : \A a \in Accesses(trace[i]) : a.held

\* C29: in paper-trading mode every order is answered by the stub with
\* success, so every entry order leaves a position of its side for the symbol
\* and every exit order leaves none.
C29_PaperOrdersTakeEffect ==
    paperTrading =>
        \A i \in 1 .. Len(trace) :
            /\ (trace[i].op \in EntryOps /\ trace[i].status # "skipped") =>
                    trace[i].status = "ok"
            /\ (trace[i].op = "enterLong" /\ trace[i].status = "ok") =>
                    trace[i].sym \in DOMAIN longPositions
            /\ (trace[i].op = "enterShort" /\ trace[i].status = "ok") =>
                    trace[i].sym \in DOMAIN shortPositions
            /\ trace[i].op = "exitLong" =>
                    trace[i].status = "ok" /\ trace[i].sym \notin DOMAIN longPositions
            /\ trace[i].op = "exitShort" =>
                    trace[i].status = "ok" /\ trace[i].sym \notin DOMAIN shortPositions

\* The step submits a closing order through op for the symbol in progress.
Closes(op) == \E i \in 1 .. Len(trace') : trace'[i].op = op /\ trace'[i].sym = sym

\* C30: the exit check of an open Long at price p submits a closing order
\* exactly when p <= entry * (1 - SL), or p >= entry * (1 + Target), or
\* p <= max(extreme, p) * (1 - trailing); that of an open Short exactly when
\* p >= entry * (1 + SL), or p <= entry * (1 - Target), or
\* p >= min(extreme, p) * (1 + trailing). Percentages are in thousandths.
C30_ExitIffCondition ==
    [][/\ (pc = "checkLongExit" /\ sym \in DOMAIN longPositions) =>
            LET pos == longPositions[sym]
                e == max(pos.HighestPrice, ltp)
                strat == getStrategy(stockStrategies, sym)
            IN  Closes("exitLong") <=>
                    \/ ltp * 1000 <= pos.EntryPrice * (1000 - strat.SL)
                    \/ ltp * 1000 >= pos.EntryPrice * (1000 + strat.Target)
                    \/ ltp * 1000 <= e * (1000 - defaultTrailingPercent)
       /\ (pc = "checkShortExit" /\ sym \in DOMAIN shortPositions) =>
            LET pos == shortPositions[sym]
                e == min(pos.LowestPrice, ltp)
                strat == getStrategy(stockStrategies, sym)
            IN  Closes("exitShort") <=>
                    \/ ltp * 1000 >= pos.EntryPrice * (1000 + strat.SL)
                    \/ ltp * 1000 <= pos.EntryPrice * (1000 - strat.Target)
                    \/ ltp * 1000 >= e * (1000 + defaultTrailingPercent)]_vars

\* The exit check of a Short has just closed it by the trailing stop, the
\* only condition its price met.
C30_Witness ==
    /\ \E i \in 1 .. Len(trace) :
        /\ trace[i].op = "exitShort"
        /\ trace[i].reason = "Trailing SL"
        /\ trace[i].status = "ok"
        /\ trace[i].sym \notin DOMAIN shortPositions
    /\ pc = "poll"

\* The step has called the entry function for the detector named why.
Fired(why) == \E i \in 1 .. Len(trace') : trace'[i].op \in EntryOps /\ trace'[i].reason = why

\* The order of the detector named why has been filled by the step.
Filled(why) ==
    \E i \in 1 .. Len(trace') :
        trace'[i].op \in EntryOps /\ trace'[i].reason = why /\ trace'[i].status = "ok"

\* The price observed for the symbol in the cycle before this one: the
\* second-to-last entry of its history once this cycle's price is appended.
PreviousPrice == ltpHistory[sym][Len(ltpHistory[sym]) - 1]

\* C31: Bounce-back and Quick-drop do nothing while the symbol has fewer than
\* two history samples; otherwise they fire exactly on their condition taken
\* between the current price and the price observed for the symbol in the
\* previous cycle, which the history update leaves second to last.
C31_ComparesWithPreviousPrice ==
    [][/\ (pc = "poll" /\ pc' = "checkAllEntries") =>
            IF sym' \in DOMAIN ltpHistory /\ ltpHistory[sym'] # <<>>
            THEN /\ Len(ltpHistory'[sym']) >= 2
                 /\ ltpHistory'[sym'][Len(ltpHistory'[sym']) - 1]
                        = ltpHistory[sym'][Len(ltpHistory[sym'])]
            ELSE Len(ltpHistory'[sym']) = 1
       /\ pc = "checkAllEntries" =>
            LET strat == getStrategy(stockStrategies, sym)
                room == OpenPositions < defaultMaxPositions
                longEntry == IF Filled("Breakout") THEN ltp
                             ELSE MapGet(longPositions, sym, ZeroLong).EntryPrice
                shortEntry == IF Filled("Breakdown") THEN ltp
                              ELSE MapGet(shortPositions, sym, ZeroShort).EntryPrice
            IN  IF Len(ltpHistory[sym]) < 2
                THEN ~Fired("BounceBack") /\ ~Fired("QuickDrop")
                ELSE /\ Fired("BounceBack") <=>
                            /\ room
                            /\ longEntry <= 0
                            /\ PreviousPrice * 1000 <= highLow[sym].Low * 1005
                            /\ ltp * 1000 >= PreviousPrice * (1000 + defaultBounceRebound)
                     /\ Fired("QuickDrop") <=>
                            /\ room
                            /\ strat.AllowShort
                            /\ shortEntry <= 0
                            /\ PreviousPrice > 0
                            /\ (PreviousPrice - ltp) * 1000 >= defaultQuickDrop * PreviousPrice]_vars

\* Quick-drop has just fired on a drop from the previous price although the
\* price before that one was no higher than the current price.
C31_Witness ==
    /\ pc = "checkLongExit"
    /\ \E i \in 1 .. Len(trace) : trace[i].reason = "QuickDrop"
    /\ Len(ltpHistory[sym]) = 3
    /\ ltpHistory[sym][1] <= ltp
    /\ ltpHistory[sym][2] > ltp

\* The fields of a position other than its extreme price.
Fixed(pos) == <<pos.EntryPrice, pos.Qty, pos.EntryTime>>

\* C32: a position that is open before and after a step keeps its entry
\* price, quantity and entry time; a step changes an open Long only in
\* checkLongExit or in the square-off of the Longs, an open Short only in
\* checkShortExit or in the square-off of the Shorts, and then only by the
\* extreme price or by removing it.
C32_PositionFrame ==
    [][/\ \A s \in DOMAIN longPositions :
            /\ s \in DOMAIN longPositions' =>
                    Fixed(longPositions'[s]) = Fixed(longPositions[s])
            /\ (s \notin DOMAIN longPositions' \/ longPositions'[s] # longPositions[s]) =>
                    pc \in {"checkLongExit", "squareOffLong"}
       /\ \A s \in DOMAIN shortPositions :
            /\ s \in DOMAIN shortPositions' =>
                    Fixed(shortPositions'[s]) = Fixed(shortPositions[s])
            /\ (s \notin DOMAIN shortPositions' \/ shortPositions'[s] # shortPositions[s]) =>
                    pc \in {"checkShortExit", "squareOffShort"}]_vars

\* C33: when the entry detectors run for a symbol, its session range contains
\* the current price, so with a buffer of zero or more the Breakout condition
\* and the Breakdown condition are false and neither detector fires.
C33_RangeContainsPrice ==
    [][pc = "checkAllEntries" =>
          LET hl == highLow[sym]
              strat == getStrategy(stockStrategies, sym)
          IN  /\ hl.Low <= ltp
              /\ ltp <= hl.High
              /\ strat.BreakoutLong >= 0 =>
                    /\ ~(hl.High > 0 /\ ltp * 1000 > hl.High * (1000 + strat.BreakoutLong))
                    /\ ~Fired("Breakout")
              /\ strat.BreakoutShort >= 0 =>
                    /\ ~(hl.Low > 0 /\ ltp * 1000 < hl.Low * (1000 - strat.BreakoutShort))
                    /\ ~Fired("Breakdown")]_vars

\* The detectors have just run at a price above the previous one by more than
\* the buffer, which is not negative, and Breakout has not fired.
C33_Witness ==
    /\ pc = "checkLongExit"
    /\ Len(ltpHistory[sym]) >= 2
    /\ getStrategy(stockStrategies, sym).BreakoutLong >= 0
    /\ ltp * 1000 > ltpHistory[sym][Len(ltpHistory[sym]) - 1]
                        * (1000 + getStrategy(stockStrategies, sym).BreakoutLong)
    /\ ltpHistory[sym][Len(ltpHistory[sym]) - 1] > 0
    /\ ltp = highLow[sym].High
    /\ \A i \in 1 .. Len(trace) : trace[i].reason # "Breakout"

\* C34: a tick that runs the square-off submits no entry order in its polling
\* step and ends with no position open.
C34_NoEntryAfterSquareOff ==
    [][/\ (pc = "checkAllEntries" /\ SquareOffDue(now)) =>
            \A i \in 1 .. Len(trace') : trace'[i].op \notin EntryOps
       /\ (pc = "poll" /\ pc' = "idle" /\ SquareOffDue(now)) =>
            (longPositions' = EmptyMap /\ shortPositions' = EmptyMap)]_vars

\* C35: a position that the entry detectors of a cycle have just opened meets
\* none of the exit conditions at the price of that cycle, so the exit checks
\* that follow in the cycle leave it open.
C35_NoExitInEntryCycle ==
    pc = "checkLongExit" =>
        \A i \in 1 .. Len(trace) :
            LET strat == getStrategy(stockStrategies, sym)
            IN  /\ (trace[i].op = "enterLong" /\ trace[i].status = "ok") =>
                    LET pos == [longPositions[sym] EXCEPT !.HighestPrice = max(@, ltp)]
                    IN  /\ ~LongFixedSL(pos, ltp, strat)
                        /\ ~LongTarget(pos, ltp, strat)
                        /\ ~LongTrailing(pos, ltp)
                /\ (trace[i].op = "enterShort" /\ trace[i].status = "ok") =>
                    LET pos == [shortPositions[sym] EXCEPT !.LowestPrice = min(@, ltp)]
                    IN  /\ ~ShortFixedSL(pos, ltp, strat)
                        /\ ~ShortTarget(pos, ltp, strat)
                        /\ ~ShortTrailing(pos, ltp)

\* C36: every open position has an entry price above 0 and a quantity of at
\* least 1; a Long's HighestPrice is at least its entry price and a Short's
\* LowestPrice at most its entry price.
C36_PositionsWellFormed ==
    /\ \A s \in DOMAIN longPositions :
        /\ longPositions[s].EntryPrice > 0
        /\ longPositions[s].Qty >= 1
        /\ longPositions[s].HighestPrice >= longPositions[s].EntryPrice
    /\ \A s \in DOMAIN shortPositions :
        /\ shortPositions[s].EntryPrice > 0
        /\ shortPositions[s].Qty >= 1
        /\ shortPositions[s].LowestPrice <= shortPositions[s].EntryPrice

\* The calls the step has just made: within squareOffAllPositions the trace
\* accumulates, elsewhere it holds the calls of the step alone.
NewCalls ==
    IF pc \in {"squareOffLong", "squareOffShort"} /\ Len(trace') >= Len(trace)
    THEN SubSeq(trace', Len(trace) + 1, Len(trace'))
    ELSE trace'

\* The closing orders of the step that the gateway, or the paper stub, accepted.
Closings == SelectSeq(NewCalls, LAMBDA e : e.op \in {"exitLong", "exitShort"} /\ e.status = "ok")

\* The TradeRecord of the position closed by call e at the price passed to it.
RecordOf(e) ==
    LET long == e.op = "exitLong"
        pos == IF long THEN longPositions[e.sym] ELSE shortPositions[e.sym]
    IN  [Symbol |-> e.sym,
         Direction |-> IF long THEN "LONG" ELSE "SHORT",
         EntryTime |-> pos.EntryTime,
         EntryPrice |-> pos.EntryPrice,
         ExitTime |-> now,
         ExitPrice |-> e.price,
         Qty |-> pos.Qty,
         PnL |-> IF long THEN pos.Qty * (e.price - pos.EntryPrice)
                 ELSE pos.Qty * (pos.EntryPrice - e.price),
         Reason |-> e.reason]

\* C37: a step appends to the ledger one TradeRecord per accepted closing
\* order, made of the closed position's symbol, side, entry price, entry time
\* and quantity, the price passed to the exit and the PnL of the side; it
\* appends nothing else and leaves the earlier records as they are, the daily
\* summary's reset of the whole ledger apart.
C37_OneRecordPerClose ==
    [][IF SummaryRuns
       THEN tradeHistory' = <<>> \/ tradeHistory' = tradeHistory
       ELSE /\ Len(tradeHistory') = Len(tradeHistory) + Len(Closings)
            /\ SubSeq(tradeHistory', 1, Len(tradeHistory)) = tradeHistory
            /\ \A k \in 1 .. Len(Closings) :
                /\ Len(tradeHistory') >= Len(tradeHistory) + k
                /\ tradeHistory'[Len(tradeHistory) + k] = RecordOf(Closings[k])]_vars

====
